---- MODULE Spec2Model ----
(***************************************************************************)
(* A model of go-llm-client: the provider-adapter cache of package llm     *)
(* (GetClient / getOrCreateClient), the provider constructors, the         *)
(* dashscope streaming Chat and the request building of the adapters.      *)
(***************************************************************************)
EXTENDS Integers, Sequences, FiniteSets, TLC

(***************************************************************************)
(* Bounds of the model.                                                    *)
(***************************************************************************)
NumProcs == 2
MaxCalls == 3

Procs == 1..NumProcs

(***************************************************************************)
(* Inputs of GetClient: the three coordinates of llm.Config that GetClient *)
(* reads.  "azure" and "dashscope|u" are provider identifiers the switch   *)
(* does not know; the values include the separator '|' of the cache key.   *)
(***************************************************************************)
KnownProviders == {"dashscope", "generic", "openai"}

Cfg(p, u, k) == [Provider |-> p, APIURL |-> u, APIKey |-> k]

\* Triples that differ from the first in exactly one coordinate (each of the
\* three), identifiers the switch does not know, an empty key, generic
\* without a URL, and triples whose formatted cache keys coincide.
Configs ==
    { Cfg("dashscope", "u", "k"),
      Cfg("generic", "u", "k"),
      Cfg("dashscope", "u", "k|k"),
      Cfg("dashscope", "u|k", "k"),
      Cfg("dashscope|u", "k", "k"),
      Cfg("azure", "u", "k"),
      Cfg("generic", "", "k"),
      Cfg("openai", "", ""),
      Cfg("openai", "", "k") }

Nil == 0
NoErr == ""
NoAdapter == [nil |-> TRUE]   \* the nil spec.Client a failed constructor returns
NoCfg == [Provider |-> "", APIURL |-> "", APIKey |-> ""]

VARIABLES
    clientCache,  \* map[string]spec.Client: cache key -> adapter (heap address)
    cacheMutex,   \* sync.RWMutex: [readers, writers: the callers holding it]
    heap,         \* the adapters constructed so far; an adapter's address is its index
    pc,           \* per caller: position inside GetClient
    cfg,          \* per caller: the cfg argument
    cacheKey,     \* per caller: local cacheKey
    client,       \* per caller: local client
    found,        \* per caller: local found
    calls,        \* GetClient calls started
    returned,     \* history: the returns of GetClient: (cfg, client, err, which return)
    ctorLog,      \* history: the provider constructor runs (provider, cfg, outcome)
    accessLog     \* history: was the mutex held at every access to clientCache

cacheVars == <<clientCache, cacheMutex, heap, pc, cfg, cacheKey, client, found,
               calls, returned, ctorLog, accessLog>>

\* NewClient called directly: the last call (provider package, options, result)
VARIABLES ncCall

ncVars == <<ncCall>>

\* Chat on a model of an adapter
VARIABLES
    store,    \* the caller's objects: [msgs: its message slice, params: its map]
    chat,     \* the running call: position, model, options, config, inputs, request
    stream,   \* the open stream: its lines, the read position, the loop's locals
    sink,     \* the caller's StreamCallback: the fragments it got, what it returned
    bodies,   \* response bodies opened and closed so far
    result,   \* what the last Chat returned
    chats     \* Chat calls started

chatVars == <<store, chat, stream, sink, bodies, result, chats>>

\* the reasoning-block cleanup applied to a content, pass after pass:
\* [content: the text now, before: the text before the last pass, passes]
VARIABLES cleanup

cleanupVars == <<cleanup>>

\* the stateful Client and the method call it is running or has last run
VARIABLES
    stateful, \* Client: [variant, config, history, client]
    call      \* [pc, op, prev, userPrompt, before, memoryJSON, resp, err, memory]

clientVars == <<stateful, call>>

\* a RequestConfig under construction: [params: the map the caller passes to
\* WithParameters, opts: the options applied so far, config]
VARIABLES applying

optVars == <<applying>>

\* the caller's context: [cancelled]
VARIABLES ctx

ctxVars == <<ctx>>

\* several callers inside Chat on one model handle with one message slice
VARIABLES
    setup,    \* [m: the model handle, opts: the options, given: the messages built]
    slice,    \* the array behind the callers' message slice
    callers,  \* per caller: [pc, i, read, wire]
    writeLog, \* the writes to what the callers share: [by, index]
    overlap   \* has a call started while another was running

raceVars == <<setup, slice, callers, writeLog, overlap>>

vars == <<cacheVars, ncVars, chatVars, cleanupVars, clientVars, optVars, ctxVars,
          raceVars>>

notCacheVars == <<ncVars, chatVars, cleanupVars, clientVars, optVars, ctxVars, raceVars>>
notNcVars == <<cacheVars, chatVars, cleanupVars, clientVars, optVars, ctxVars, raceVars>>
notChatVars == <<cacheVars, ncVars, cleanupVars, clientVars, optVars, ctxVars, raceVars>>
notCleanupVars == <<cacheVars, ncVars, chatVars, clientVars, optVars, ctxVars, raceVars>>
notClientVars == <<cacheVars, ncVars, chatVars, cleanupVars, optVars, ctxVars, raceVars>>
notChatClientVars == <<cacheVars, ncVars, cleanupVars, optVars, ctxVars, raceVars>>
notOptVars == <<cacheVars, ncVars, chatVars, cleanupVars, clientVars, ctxVars, raceVars>>
notRaceVars == <<cacheVars, ncVars, chatVars, cleanupVars, clientVars, optVars, ctxVars>>

(***************************************************************************)
(* spec.ClientConfig and the client options (options.go).                  *)
(***************************************************************************)
NewClientConfig == [APIKey |-> "", APIURL |-> "", HTTPClient |-> "default"]

WithAPIKey(key) == [opt |-> "WithAPIKey", val |-> key]
WithAPIURL(url) == [opt |-> "WithAPIURL", val |-> url]
WithHTTPClient(c) == [opt |-> "WithHTTPClient", val |-> c]

ApplyClientOption(config, o) ==
    IF o.opt = "WithAPIKey" THEN [config EXCEPT !.APIKey = o.val]
    ELSE IF o.opt = "WithAPIURL" THEN [config EXCEPT !.APIURL = o.val]
    ELSE [config EXCEPT !.HTTPClient = o.val]

RECURSIVE ApplyClientOptions(_, _)
ApplyClientOptions(config, opts) ==
    IF opts = <<>> THEN config
    ELSE ApplyClientOptions(ApplyClientOption(config, Head(opts)), Tail(opts))

(***************************************************************************)
(* The provider constructors.  Each returns (adapter value, error); the    *)
(* adapter value is what &clientImpl{...} holds.                           *)
(***************************************************************************)
DashscopeDefaultURL == "https://dashscope.aliyuncs.com/compatible-mode/v1/chat/completions"
OpenAIDefaultURL == "https://api.openai.com/v1/chat/completions"

DashscopeNewClient(opts) ==
    LET config == ApplyClientOptions(
                      [NewClientConfig EXCEPT !.APIURL = DashscopeDefaultURL], opts)
    IN  IF config.APIKey = ""
        THEN [client |-> NoAdapter,
              err |-> "dashscope: API key is required, use llm.WithAPIKey() option"]
        ELSE [client |-> [provider |-> "dashscope", config |-> config], err |-> NoErr]

GenericNewClient(opts) ==
    LET config == ApplyClientOptions(NewClientConfig, opts)
    IN  IF config.APIKey = ""
        THEN [client |-> NoAdapter,
              err |-> "generic provider: API key is required, use llm.WithAPIKey()"]
        ELSE IF config.APIURL = ""
        THEN [client |-> NoAdapter,
              err |-> "generic provider: API URL is required for private deployment, use llm.WithAPIURL()"]
        ELSE [client |-> [provider |-> "generic", config |-> config], err |-> NoErr]

\* mutant: the API-key validation is left out
OpenAINewClientNoKeyCheck(opts) ==
    LET config == ApplyClientOptions(
                      [NewClientConfig EXCEPT !.APIURL = OpenAIDefaultURL], opts)
    IN  [client |-> [provider |-> "openai", config |-> config], err |-> NoErr]

OpenAINewClient(opts) ==
    LET config == ApplyClientOptions(
                      [NewClientConfig EXCEPT !.APIURL = OpenAIDefaultURL], opts)
    IN  IF config.APIKey = ""
        THEN [client |-> NoAdapter,
              err |-> "openai provider: API key is required, use spec.WithAPIKey()"]
        ELSE [client |-> [provider |-> "openai", config |-> config], err |-> NoErr]

(***************************************************************************)
(* GetClient, line by line.                                                *)
(***************************************************************************)
\* mutant: the API key is left out of the cache key
CacheKeyWithoutAPIKey(c) == c.Provider \o "|" \o c.APIURL

\* fmt.Sprintf("%s|%s|%s", cfg.Provider, cfg.APIURL, cfg.APIKey)
CacheKeyOf(c) == c.Provider \o "|" \o c.APIURL \o "|" \o c.APIKey

\* clientOpts: WithAPIKey always, WithAPIURL only for a non-empty cfg.APIURL
ClientOptsOf(c) ==
    <<WithAPIKey(c.APIKey)>> \o (IF c.APIURL # "" THEN <<WithAPIURL(c.APIURL)>> ELSE <<>>)

\* the switch on cfg.Provider: (adapter value, error, did a constructor run)
SwitchProvider(c) ==
    IF c.Provider = "dashscope"
    THEN [new |-> DashscopeNewClient(ClientOptsOf(c)), ran |-> TRUE]
    ELSE IF c.Provider = "generic"
    THEN [new |-> GenericNewClient(ClientOptsOf(c)), ran |-> TRUE]
    ELSE IF c.Provider = "openai"
    THEN [new |-> OpenAINewClient(ClientOptsOf(c)), ran |-> TRUE]
    ELSE [new |-> [client |-> NoAdapter, err |-> "unknown provider: " \o c.Provider],
          ran |-> FALSE]

\* client, found := clientCache[cacheKey]
Lookup(key) ==
    IF key \in DOMAIN clientCache
    THEN [client |-> clientCache[key], found |-> TRUE]
    ELSE [client |-> Nil, found |-> FALSE]

\* mutant: no second check after taking the write lock
LookupAgainSkipped(key) == [client |-> Nil, found |-> FALSE]

\* client, found = clientCache[cacheKey], the second check under the write lock
LookupAgain(key) == Lookup(key)

\* sync.RWMutex: when RLock and Lock may return
CanRLock == cacheMutex.writers = {}
CanLock == cacheMutex.writers = {} /\ cacheMutex.readers = {}

HoldsLock(p) == p \in cacheMutex.readers \/ p \in cacheMutex.writers

\* how often a provider constructor has run for the coordinates c
CtorRuns(c) == Cardinality({r \in ctorLog : r.cfg = c})

\* the successful resolutions so far
Resolved == {r \in returned : r.err = NoErr}

\* back to the caller: the locals of the call are gone
Return(p, c, e, via) ==
    /\ returned' = returned \cup {[cfg |-> cfg[p], client |-> c, err |-> e, via |-> via]}
    /\ pc' = [pc EXCEPT ![p] = "idle"]
    /\ cfg' = [cfg EXCEPT ![p] = NoCfg]
    /\ cacheKey' = [cacheKey EXCEPT ![p] = ""]
    /\ client' = [client EXCEPT ![p] = Nil]
    /\ found' = [found EXCEPT ![p] = FALSE]

InitCache ==
    /\ clientCache = <<>>
    /\ cacheMutex = [readers |-> {}, writers |-> {}]
    /\ heap = <<>>
    /\ pc = [p \in Procs |-> "idle"]
    /\ cfg = [p \in Procs |-> NoCfg]
    /\ cacheKey = [p \in Procs |-> ""]
    /\ client = [p \in Procs |-> Nil]
    /\ found = [p \in Procs |-> FALSE]
    /\ calls = 0
    /\ returned = {}
    /\ ctorLog = {}
    /\ accessLog = TRUE

\* a caller enters GetClient(c) and computes the cache key
GetClient(p, c) ==
    /\ pc[p] = "idle"
    /\ calls < MaxCalls
    /\ calls' = calls + 1
    /\ cfg' = [cfg EXCEPT ![p] = c]
    /\ cacheKey' = [cacheKey EXCEPT ![p] = CacheKeyOf(c)]
    /\ pc' = [pc EXCEPT ![p] = "RLock"]
    /\ UNCHANGED <<clientCache, cacheMutex, heap, client, found, returned,
                   ctorLog, accessLog>>
    /\ UNCHANGED notCacheVars

\* cacheMutex.RLock()
RLock(p) ==
    /\ pc[p] = "RLock"
    /\ CanRLock
    /\ cacheMutex' = [cacheMutex EXCEPT !.readers = @ \cup {p}]
    /\ pc' = [pc EXCEPT ![p] = "read"]
    /\ UNCHANGED <<clientCache, heap, cfg, cacheKey, client, found, calls,
                   returned, ctorLog, accessLog>>
    /\ UNCHANGED notCacheVars

\* client, found := clientCache[cacheKey]   (first check)
ReadCache(p) ==
    /\ pc[p] = "read"
    /\ client' = [client EXCEPT ![p] = Lookup(cacheKey[p]).client]
    /\ found' = [found EXCEPT ![p] = Lookup(cacheKey[p]).found]
    /\ accessLog' = (accessLog /\ HoldsLock(p))
    /\ pc' = [pc EXCEPT ![p] = "RUnlock"]
    /\ UNCHANGED <<clientCache, cacheMutex, heap, cfg, cacheKey, calls,
                   returned, ctorLog>>
    /\ UNCHANGED notCacheVars

\* cacheMutex.RUnlock(); if found { return client, nil }
RUnlock(p) ==
    /\ pc[p] = "RUnlock"
    /\ cacheMutex' = [cacheMutex EXCEPT !.readers = @ \ {p}]
    /\ IF found[p]
       THEN Return(p, client[p], NoErr, "hit")
       ELSE /\ pc' = [pc EXCEPT ![p] = "Lock"]
            /\ UNCHANGED <<cfg, cacheKey, client, found, returned>>
    /\ UNCHANGED <<clientCache, heap, calls, ctorLog, accessLog>>
    /\ UNCHANGED notCacheVars

\* mutant: the write path goes on without taking the write lock
LockNotTaken(p) ==
    /\ pc[p] = "Lock"
    /\ pc' = [pc EXCEPT ![p] = "recheck"]
    /\ UNCHANGED <<clientCache, cacheMutex, heap, cfg, cacheKey, client, found, calls,
                   returned, ctorLog, accessLog>>
    /\ UNCHANGED notCacheVars

\* cacheMutex.Lock(); defer cacheMutex.Unlock()
Lock(p) ==
    /\ pc[p] = "Lock"
    /\ CanLock
    /\ cacheMutex' = [cacheMutex EXCEPT !.writers = @ \cup {p}]
    /\ pc' = [pc EXCEPT ![p] = "recheck"]
    /\ UNCHANGED <<clientCache, heap, cfg, cacheKey, client, found, calls,
                   returned, ctorLog, accessLog>>
    /\ UNCHANGED notCacheVars

\* client, found = clientCache[cacheKey]   (second check, under the write lock)
Recheck(p) ==
    /\ pc[p] = "recheck"
    /\ client' = [client EXCEPT ![p] = LookupAgain(cacheKey[p]).client]
    /\ found' = [found EXCEPT ![p] = LookupAgain(cacheKey[p]).found]
    /\ accessLog' = (accessLog /\ HoldsLock(p))
    /\ pc' = [pc EXCEPT ![p] = IF LookupAgain(cacheKey[p]).found THEN "hit" ELSE "construct"]
    /\ UNCHANGED <<clientCache, cacheMutex, heap, cfg, cacheKey, calls,
                   returned, ctorLog>>
    /\ UNCHANGED notCacheVars

\* if found { return client, nil }, the deferred Unlock running on the way out
ReturnHit(p) ==
    /\ pc[p] = "hit"
    /\ cacheMutex' = [cacheMutex EXCEPT !.writers = @ \ {p}]
    /\ Return(p, client[p], NoErr, "recheck")
    /\ UNCHANGED <<clientCache, heap, calls, ctorLog, accessLog>>
    /\ UNCHANGED notCacheVars

\* the switch: construct the adapter, or fail (unknown provider, constructor
\* error) and return with the deferred Unlock
Construct(p) ==
    /\ pc[p] = "construct"
    /\ LET sw == SwitchProvider(cfg[p])
       IN  /\ ctorLog' = IF sw.ran
                         THEN ctorLog \cup {[cfg |-> cfg[p], ok |-> sw.new.err = NoErr,
                                             run |-> CtorRuns(cfg[p]) + 1]}
                         ELSE ctorLog
           /\ IF sw.new.err # NoErr
              THEN /\ cacheMutex' = [cacheMutex EXCEPT !.writers = @ \ {p}]
                   /\ Return(p, Nil, sw.new.err, "error")
                   /\ UNCHANGED heap
              ELSE /\ heap' = Append(heap, sw.new.client)
                   /\ client' = [client EXCEPT ![p] = Len(heap) + 1]
                   /\ pc' = [pc EXCEPT ![p] = "insert"]
                   /\ UNCHANGED <<cacheMutex, cfg, cacheKey, found, returned>>
    /\ UNCHANGED <<clientCache, calls, accessLog>>
    /\ UNCHANGED notCacheVars

\* clientCache[cacheKey] = newClient; return newClient, nil (deferred Unlock)
Insert(p) ==
    /\ pc[p] = "insert"
    /\ clientCache' = [k \in DOMAIN clientCache \cup {cacheKey[p]} |->
                          IF k = cacheKey[p] THEN client[p] ELSE clientCache[k]]
    /\ accessLog' = (accessLog /\ p \in cacheMutex.writers)
    /\ cacheMutex' = [cacheMutex EXCEPT !.writers = @ \ {p}]
    /\ Return(p, client[p], NoErr, "new")
    /\ UNCHANGED <<heap, calls, ctorLog>>
    /\ UNCHANGED notCacheVars

NextCache ==
    \E p \in Procs :
        \/ \E c \in Configs : GetClient(p, c)
        \/ RLock(p)
        \/ ReadCache(p)
        \/ RUnlock(p)
        \/ Lock(p)
        \/ Recheck(p)
        \/ ReturnHit(p)
        \/ Construct(p)
        \/ Insert(p)

(***************************************************************************)
(* The provider constructors called directly, with any option sequence.    *)
(***************************************************************************)
MaxOpts == 2

ClientOptionValues ==
    {WithAPIKey(k) : k \in {"", "k", "sk"}} \cup {WithAPIURL(u) : u \in {"", "u"}}
        \cup {WithHTTPClient("custom")}

RECURSIVE SeqsUpTo(_, _)
SeqsUpTo(S, n) ==
    IF n = 0 THEN {<<>>}
    ELSE SeqsUpTo(S, n - 1) \cup
         {Append(q, x) : q \in {r \in SeqsUpTo(S, n - 1) : Len(r) = n - 1}, x \in S}

NewClientOf(provider, opts) ==
    IF provider = "dashscope" THEN DashscopeNewClient(opts)
    ELSE IF provider = "generic" THEN GenericNewClient(opts)
    ELSE OpenAINewClient(opts)

NoCall == [provider |-> "", opts |-> <<>>, result |-> [client |-> NoAdapter, err |-> NoErr]]

InitNewClient == ncCall = NoCall

NewClient(provider, opts) ==
    /\ ncCall' = [provider |-> provider, opts |-> opts,
                  result |-> NewClientOf(provider, opts)]
    /\ UNCHANGED notNcVars

NextNewClient ==
    \E provider \in KnownProviders, opts \in SeqsUpTo(ClientOptionValues, MaxOpts) :
        NewClient(provider, opts)

(***************************************************************************)
(* Messages, request options and the wire request of the adapters.         *)
(*                                                                         *)
(* A text (message content, stream fragment) is a sequence of symbols:     *)
(* words and the marks "\n", "<think>", "</think>", "/no_think", and the   *)
(* halves "<thi", "nk>" of a mark; appending is \o.  A nil pointer option  *)
(* is Unset, a set one Some(v).  A map[string]any is a function on its     *)
(* keys.                                                                   *)
(***************************************************************************)
Text(w) == <<w>>
NoText == <<>>

RoleSystem == "system"
RoleUser == "user"
RoleAssistant == "assistant"

Message(role, content) == [Role |-> role, Content |-> content]
NewSystemMessage(content) == Message(RoleSystem, content)
NewUserMessage(content) == Message(RoleUser, content)
NewAssistantMessage(content) == Message(RoleAssistant, content)
ZeroMessage == Message("", NoText)

Unset == [set |-> FALSE]
Some(v) == [set |-> TRUE, val |-> v]

EmptyMap == <<>>
Put(m, k, v) == [x \in DOMAIN m \cup {k} |-> IF x = k THEN v ELSE m[x]]
\* mutant: a key that is there keeps its value
MergeKeepsEarlier(m, n) ==
    [x \in DOMAIN m \cup DOMAIN n |-> IF x \in DOMAIN m THEN m[x] ELSE n[x]]

Merge(m, n) == [x \in DOMAIN m \cup DOMAIN n |-> IF x \in DOMAIN n THEN n[x] ELSE m[x]]

\* spec.NewRequestConfig; StreamCallback is the field Chat reads at
\* dashscope.go:151 (FALSE: nil, TRUE: the caller's sink)
NewRequestConfig ==
    [Model |-> "", Temperature |-> Unset, MaxTokens |-> Unset, TopP |-> Unset,
     Streaming |-> FALSE, Thinking |-> Unset, Parameters |-> EmptyMap,
     StreamCallback |-> FALSE]

\* the request options, as values; WithParameters holds the caller's map by
\* reference and reads it when applied
Opt(name, key, val) == [opt |-> name, key |-> key, val |-> val]
WithThinking(enabled) == Opt("WithThinking", "", enabled)
WithModel(model) == Opt("WithModel", "", model)
WithTemperature(temp) == Opt("WithTemperature", "", temp)
WithMaxTokens(max) == Opt("WithMaxTokens", "", max)
WithTopP(topP) == Opt("WithTopP", "", topP)
WithStreaming == Opt("WithStreaming", "", TRUE)
WithParameters == Opt("WithParameters", "", "params")
WithParameter(key, value) == Opt("WithParameter", key, value)
WithStreamCallback == Opt("WithStreamCallback", "", "sink")

\* WithStreamCallback(cb): installs the sink (the streamSink request option)
ApplyWithStreamCallback(config) == [config EXCEPT !.StreamCallback = TRUE]

\* opt(config): one option applied to the configuration; st is the pair of the
\* configuration being built and the caller's objects it can reach
ApplyOption(st, o) ==
    LET c == st.config
        c2 == CASE o.opt = "WithThinking" -> [c EXCEPT !.Thinking = Some(o.val)]
                [] o.opt = "WithModel" -> [c EXCEPT !.Model = o.val]
                [] o.opt = "WithTemperature" -> [c EXCEPT !.Temperature = Some(o.val)]
                [] o.opt = "WithMaxTokens" -> [c EXCEPT !.MaxTokens = Some(o.val)]
                [] o.opt = "WithTopP" -> [c EXCEPT !.TopP = Some(o.val)]
                [] o.opt = "WithStreaming" -> [c EXCEPT !.Streaming = TRUE]
                [] o.opt = "WithParameters" ->
                       [c EXCEPT !.Parameters = Merge(c.Parameters, st.store.params)]
                [] o.opt = "WithParameter" ->
                       [c EXCEPT !.Parameters = Put(c.Parameters, o.key, o.val)]
                [] o.opt = "WithStreamCallback" -> ApplyWithStreamCallback(c)
    IN  [st EXCEPT !.config = c2]

\* config := spec.NewRequestConfig(); for _, opt := range opts { opt(config) }
RECURSIVE ApplyOptions(_, _)
ApplyOptions(st, opts) ==
    IF opts = <<>> THEN st
    ELSE ApplyOptions(ApplyOption(st, Head(opts)), Tail(opts))

\* client.Model(name)
ModelOf(adapter, name) == [client |-> adapter, name |-> name]

\* the request headers every adapter builds
HeadersOf(m) ==
    [ContentType |-> "application/json",
     Authorization |-> "Bearer " \o m.client.config.APIKey]

\* mutant: the caller's parameters are laid over the adapter's fields
DashscopeRequestBodyParametersLast(config, name, messages) ==
    LET b1 == IF config.Thinking.set
              THEN Put(EmptyMap, "enable_thinking", config.Thinking.val) ELSE EmptyMap
        b2 == Put(Put(b1, "model", name), "messages", messages)
        b3 == IF config.Temperature.set
              THEN Put(b2, "temperature", config.Temperature.val) ELSE b2
        b4 == IF config.Streaming
              THEN Put(Put(b3, "stream", TRUE), "stream_options",
                       [include_usage |-> TRUE])
              ELSE b3
    IN  Merge(b4, config.Parameters)

\* mutant: an unset thinking option is sent as false
DashscopeRequestBodyThinkingDefault(config, name, messages) ==
    LET b0 == config.Parameters
        b1 == Put(b0, "enable_thinking",
                  IF config.Thinking.set THEN config.Thinking.val ELSE FALSE)
        b2 == Put(Put(b1, "model", name), "messages", messages)
        b3 == IF config.Temperature.set
              THEN Put(b2, "temperature", config.Temperature.val) ELSE b2
    IN  IF config.Streaming
        THEN Put(Put(b3, "stream", TRUE), "stream_options", [include_usage |-> TRUE])
        ELSE b3

\* dashscope: the request body
DashscopeRequestBody(config, name, messages) ==
    LET b0 == config.Parameters
        b1 == IF config.Thinking.set
              THEN Put(b0, "enable_thinking", config.Thinking.val) ELSE b0
        b2 == Put(Put(b1, "model", name), "messages", messages)
        b3 == IF config.Temperature.set
              THEN Put(b2, "temperature", config.Temperature.val) ELSE b2
    IN  IF config.Streaming
        THEN Put(Put(b3, "stream", TRUE), "stream_options", [include_usage |-> TRUE])
        ELSE b3

\* mutant: the caller's parameters are laid over the body's fields
OpenAIRequestBodyParametersLast(config, name, messages) ==
    LET b1 == Put(Put(EmptyMap, "model", name), "messages", messages)
        b2 == IF config.Temperature.set
              THEN Put(b1, "temperature", config.Temperature.val) ELSE b1
        b3 == IF config.MaxTokens.set
              THEN Put(b2, "max_tokens", config.MaxTokens.val) ELSE b2
        b4 == IF config.TopP.set THEN Put(b3, "top_p", config.TopP.val) ELSE b3
        b5 == IF config.Streaming THEN Put(b4, "stream", TRUE) ELSE b4
    IN  Merge(b5, config.Parameters)

\* openai: the request body
OpenAIRequestBody(config, name, messages) ==
    LET b0 == config.Parameters
        b1 == Put(Put(b0, "model", name), "messages", messages)
        b2 == IF config.Temperature.set
              THEN Put(b1, "temperature", config.Temperature.val) ELSE b1
        b3 == IF config.MaxTokens.set
              THEN Put(b2, "max_tokens", config.MaxTokens.val) ELSE b2
        b4 == IF config.TopP.set THEN Put(b3, "top_p", config.TopP.val) ELSE b3
    IN  IF config.Streaming THEN Put(b4, "stream", TRUE) ELSE b4

\* mutant: the last system message at or after i is taken
LastSystem(msgs, i) ==
    LET S == {j \in i..Len(msgs) : msgs[j].Role = RoleSystem}
    IN  IF S = {} THEN 0 ELSE CHOOSE j \in S : \A h \in S : h <= j

\* generic: the index of the first system message of processedMessages, 0 if none
RECURSIVE FirstSystem(_, _)
FirstSystem(msgs, i) ==
    IF i > Len(msgs) THEN 0
    ELSE IF msgs[i].Role = RoleSystem THEN i
    ELSE FirstSystem(msgs, i + 1)

NoThinkSuffix == <<"\n", "/no_think">>

\* generic: the array behind the messages argument after the thinking
\* adaptation; the loop runs over the copy and writes messages[i]
GenericAdaptThinking(config, messages) ==
    LET processedMessages == messages
        i == FirstSystem(processedMessages, 1)
    IN  IF config.Thinking.set /\ ~config.Thinking.val /\ i # 0
        THEN [messages EXCEPT ![i].Content = @ \o NoThinkSuffix]
        ELSE messages

\* generic: the request body
GenericRequestBody(config, name, messages) ==
    LET b0 == config.Parameters
        b1 == Put(Put(b0, "model", name), "messages", messages)
    IN  IF config.Temperature.set
        THEN Put(b1, "temperature", config.Temperature.val) ELSE b1

\* Chat up to its transport call: the configuration, the caller's objects as the
\* code leaves them, and the request handed to the Requester
PrepareChat(m, owned, opts) ==
    LET st == ApplyOptions([config |-> NewRequestConfig, store |-> owned], opts)
        config == st.config
        provider == m.client.provider
        msgs == IF provider = "generic"
                THEN GenericAdaptThinking(config, st.store.msgs)
                ELSE st.store.msgs
        body == IF provider = "dashscope"
                THEN DashscopeRequestBody(config, m.name, msgs)
                ELSE IF provider = "generic"
                THEN GenericRequestBody(config, m.name, msgs)
                ELSE OpenAIRequestBody(config, m.name, msgs)
    IN  [config |-> config,
         store |-> [st.store EXCEPT !.msgs = msgs],
         wire |-> [via |-> IF provider = "dashscope" /\ config.Streaming
                           THEN "PostStream" ELSE "Post",
                   url |-> m.client.config.APIURL,
                   headers |-> HeadersOf(m),
                   body |-> body]]



(***************************************************************************)
(* The Requester and the replies of the HTTP transport.                    *)
(*                                                                         *)
(* A response body is [text, json, choices]: its bytes as text, whether    *)
(* they parse as the JSON shape the adapters expect, and the choices the   *)
(* parse yields.  A reply is [neterr, status, body, readerr] and, for a    *)
(* stream, the lines the body will deliver and whether the read then       *)
(* breaks.                                                                 *)
(***************************************************************************)
NoBody == [text |-> "", json |-> FALSE, choices |-> <<>>]
NoResp == [nil |-> TRUE]

Body(text, json, choices) == [text |-> text, json |-> json, choices |-> choices]

\* %d of the status codes the model uses
StatusText(status) ==
    CASE status = 200 -> "200"
      [] status = 204 -> "204"
      [] status = 500 -> "500"

\* mutant: the status code is left out of the message
APIErrorWithoutStatus(status, body) == "requester: API error: " \o body.text

APIError(status, body) ==
    "requester: API error (status " \o StatusText(status) \o "): " \o body.text

Is2xx(status) == ~(status < 200 \/ status >= 300)

\* Requester.Post: (rawBody, err); the body is read and closed inside
RequesterPost(reply) ==
    IF reply.neterr THEN [raw |-> NoBody, err |-> "requester: request failed"]
    ELSE IF reply.readerr
    THEN [raw |-> NoBody, err |-> "requester: failed to read response body"]
    ELSE IF ~Is2xx(reply.status)
    THEN [raw |-> NoBody, err |-> APIError(reply.status, reply.body)]
    ELSE [raw |-> reply.body, err |-> NoErr]

\* Requester.PostStream: (is a response returned, err, bodies opened, bodies it
\* closed itself)
RequesterPostStream(reply) ==
    IF reply.neterr
    THEN [resp |-> FALSE, err |-> "requester: request failed", opened |-> 0,
          closed |-> 0]
    ELSE IF ~Is2xx(reply.status)
    THEN [resp |-> FALSE, err |-> APIError(reply.status, reply.body),
          opened |-> 1, closed |-> 1]
    ELSE [resp |-> TRUE, err |-> NoErr, opened |-> 1, closed |-> 0]

(***************************************************************************)
(* The non-streaming response handling of the three adapters.              *)
(***************************************************************************)
\* the first position j >= from with t[j..j+2] = "</think>", "\n", "\n"; 0 if none
RECURSIVE CloseAt(_, _)
CloseAt(t, from) ==
    IF from + 2 > Len(t) THEN 0
    ELSE IF t[from] = "</think>" /\ t[from + 1] = "\n" /\ t[from + 2] = "\n" THEN from
    ELSE CloseAt(t, from + 1)

\* the number of symbols that spell "<think>" at position i: 1 for the symbol
\* itself, 2 for its halves "<thi", "nk>" side by side, 0 if it is not there
OpenLen(t, i) ==
    IF i <= Len(t) /\ t[i] = "<think>" THEN 1
    ELSE IF i + 1 <= Len(t) /\ t[i] = "<thi" /\ t[i + 1] = "nk>" THEN 2
    ELSE 0

\* thinkTagRegex.ReplaceAllString(content, ""), the regexp being
\* (?s)<think>.*?</think>\n\n : leftmost matches, each as short as possible,
\* the search going on behind a match in the text as it was
RECURSIVE StripThink(_)
StripThink(t) ==
    IF t = <<>> THEN <<>>
    ELSE LET n == OpenLen(t, 1)
             c == IF n = 0 THEN 0 ELSE CloseAt(t, n + 1)
         IN  IF c # 0
             THEN StripThink(SubSeq(t, c + 3, Len(t)))
             ELSE <<Head(t)>> \o StripThink(Tail(t))

Response(message, raw) == [Message |-> message, RawResponse |-> raw]

\* mutant: a body that does not parse is taken for a response without choices
DashscopeParseLenient(raw) ==
    [resp |-> Response(IF raw.json /\ Len(raw.choices) > 0
                       THEN raw.choices[1] ELSE ZeroMessage, raw),
     err |-> NoErr]

DashscopeParse(raw) ==
    IF ~raw.json
    THEN [resp |-> NoResp, err |-> "dashscope: failed to unmarshal response"]
    ELSE [resp |-> Response(IF Len(raw.choices) > 0 THEN raw.choices[1] ELSE ZeroMessage,
                            raw),
          err |-> NoErr]

\* mutant: the content is returned as the provider sent it
GenericParseNoCleanup(raw) ==
    IF ~raw.json
    THEN [resp |-> NoResp, err |-> "generic provider: failed to unmarshal response"]
    ELSE IF Len(raw.choices) = 0
    THEN [resp |-> NoResp, err |-> "generic provider: invalid response, no choices found"]
    ELSE [resp |-> Response(raw.choices[1], raw), err |-> NoErr]

GenericParse(raw) ==
    IF ~raw.json
    THEN [resp |-> NoResp, err |-> "generic provider: failed to unmarshal response"]
    ELSE IF Len(raw.choices) = 0
    THEN [resp |-> NoResp, err |-> "generic provider: invalid response, no choices found"]
    ELSE [resp |-> Response([raw.choices[1] EXCEPT !.Content = StripThink(@)], raw),
          err |-> NoErr]

\* mutant: a response without choices is an error
OpenAIParseStrict(raw) ==
    IF ~raw.json
    THEN [resp |-> NoResp, err |-> "openai provider: failed to unmarshal response"]
    ELSE IF Len(raw.choices) = 0
    THEN [resp |-> NoResp, err |-> "openai provider: invalid response, no choices found"]
    ELSE [resp |-> Response(raw.choices[1], raw), err |-> NoErr]

OpenAIParse(raw) ==
    IF ~raw.json
    THEN [resp |-> NoResp, err |-> "openai provider: failed to unmarshal response"]
    ELSE [resp |-> Response(IF Len(raw.choices) > 0 THEN raw.choices[1] ELSE ZeroMessage,
                            raw),
          err |-> NoErr]

\* Chat from the return of Requester.Post to its own return
FinishChat(provider, posted) ==
    IF posted.err # NoErr THEN [resp |-> NoResp, err |-> posted.err]
    ELSE IF provider = "dashscope" THEN DashscopeParse(posted.raw)
    ELSE IF provider = "generic" THEN GenericParse(posted.raw)
    ELSE OpenAIParse(posted.raw)

(***************************************************************************)
(* The lines of an SSE stream and what dashscope's read loop makes of one. *)
(*                                                                         *)
(* A line is [data, done, json, choices]: does it start with "data: ", is  *)
(* its trimmed payload "[DONE]", does the payload parse as a chunk, and    *)
(* the chunk's choices, each a delta [Role, Content].                      *)
(***************************************************************************)
Line(data, done, json, choices) ==
    [data |-> data, done |-> done, json |-> json, choices |-> choices]
OtherLine == Line(FALSE, FALSE, FALSE, <<>>)
DoneLine == Line(TRUE, TRUE, FALSE, <<>>)
BadLine == Line(TRUE, FALSE, FALSE, <<>>)
ChunkLine(choices) == Line(TRUE, FALSE, TRUE, choices)
Delta(role, content) == [Role |-> role, Content |-> content]

\* mutant: a fragment is written in front of what was accumulated
WriteStringInFront(fullContent, content) == content \o fullContent

\* fullContent.WriteString(delta.Content)
WriteString(fullContent, content) == fullContent \o content

\* mutant: a payload that does not parse ends the loop
HandleLineBadChunkBreaks(line, role, fullContent) ==
    IF ~line.data
    THEN [next |-> "continue", role |-> role, fullContent |-> fullContent,
          fragment |-> NoText]
    ELSE IF line.done \/ ~line.json
    THEN [next |-> "break", role |-> role, fullContent |-> fullContent,
          fragment |-> NoText]
    ELSE IF Len(line.choices) > 0 /\ line.choices[1].Content # NoText
    THEN [next |-> "deliver",
          role |-> IF line.choices[1].Role # "" THEN line.choices[1].Role ELSE role,
          fullContent |-> fullContent \o line.choices[1].Content,
          fragment |-> line.choices[1].Content]
    ELSE [next |-> "continue",
          role |-> IF Len(line.choices) > 0 /\ line.choices[1].Role # ""
                   THEN line.choices[1].Role ELSE role,
          fullContent |-> fullContent, fragment |-> NoText]

\* mutant: the [DONE] payload is taken for a chunk that does not parse
HandleLineDoneSkipped(line, role, fullContent) ==
    IF ~line.data \/ ~line.json
    THEN [next |-> "continue", role |-> role, fullContent |-> fullContent,
          fragment |-> NoText]
    ELSE IF Len(line.choices) > 0 /\ line.choices[1].Content # NoText
    THEN [next |-> "deliver",
          role |-> IF line.choices[1].Role # "" THEN line.choices[1].Role ELSE role,
          fullContent |-> fullContent \o line.choices[1].Content,
          fragment |-> line.choices[1].Content]
    ELSE [next |-> "continue",
          role |-> IF Len(line.choices) > 0 /\ line.choices[1].Role # ""
                   THEN line.choices[1].Role ELSE role,
          fullContent |-> fullContent, fragment |-> NoText]

\* one pass of the loop body over a line, up to the callback: what the loop
\* does next, the running role, the accumulated content, the fragment to deliver
HandleLine(line, role, fullContent) ==
    IF ~line.data
    THEN [next |-> "continue", role |-> role, fullContent |-> fullContent,
          fragment |-> NoText]
    ELSE IF line.done
    THEN [next |-> "break", role |-> role, fullContent |-> fullContent,
          fragment |-> NoText]
    ELSE IF ~line.json
    THEN [next |-> "continue", role |-> role, fullContent |-> fullContent,
          fragment |-> NoText]
    ELSE IF Len(line.choices) > 0
    THEN LET delta == line.choices[1]
             role2 == IF delta.Role # "" THEN delta.Role ELSE role
         IN  IF delta.Content # NoText
             THEN [next |-> "deliver", role |-> role2,
                   fullContent |-> WriteString(fullContent, delta.Content),
                   fragment |-> delta.Content]
             ELSE [next |-> "continue", role |-> role2, fullContent |-> fullContent,
                   fragment |-> NoText]
    ELSE [next |-> "continue", role |-> role, fullContent |-> fullContent,
          fragment |-> NoText]

\* mutant: the callback's error is dropped and the loop goes on
CallbackResultIgnored(err) == [next |-> "continue", err |-> NoErr]

\* the callback's return inside the loop: a non-nil error ends Chat with it
CallbackResult(err) ==
    IF err # NoErr THEN [next |-> "return", err |-> err]
    ELSE [next |-> "continue", err |-> NoErr]

\* mutant: the body is left open
DeferCloseMissing(b) == b

\* defer resp.Body.Close(), run at every return of Chat after PostStream succeeded
DeferClose(b) == [b EXCEPT !.open = @ - 1]

\* mutant: the role is the one the loop started with
StreamResponseAssistant(role, fullContent) ==
    [Message |-> [Role |-> "assistant", Content |-> fullContent],
     RawResponse |-> [text |-> "", json |-> FALSE, choices |-> <<>>]]

\* the aggregated Response of a stream: no RawResponse
StreamResponse(role, fullContent) == Response(Message(role, fullContent), NoBody)

(***************************************************************************)
(* Chat as a state machine: the caller builds its messages and parameter   *)
(* map, calls Chat on a model of an adapter, the transport replies, and    *)
(* for a stream the loop reads line after line, calling the sink.          *)
(***************************************************************************)
MaxChats == 2
MaxMsgs == 3
MaxLines == 3

\* the adapters the constructors build, and a model of each
Adapters ==
    {NewClientOf(p, <<WithAPIKey("k"), WithAPIURL("u")>>).client : p \in KnownProviders}
Models == {ModelOf(a, "qwen") : a \in Adapters}
NoModel == ModelOf(NoAdapter, "")

RoleMessages == {NewSystemMessage(Text("S")), NewUserMessage(Text("U"))}
MessageSeqs == SeqsUpTo(RoleMessages, MaxMsgs)
ParamMaps == {EmptyMap, Put(EmptyMap, "top_k", 5)}

\* option sequences of non-streaming calls
OptionSeqs ==
    {<<>>, <<WithThinking(FALSE)>>, <<WithThinking(TRUE), WithTemperature(1)>>,
     <<WithParameters, WithThinking(FALSE)>>,
     <<WithModel("other"), WithMaxTokens(16), WithTopP(1)>>,
     <<WithParameter("seed", 7), WithParameters>>}

\* option sequences of streaming calls
StreamOptionSeqs ==
    {<<WithStreaming>>, <<WithParameters, WithStreaming, WithStreamCallback>>}

Reply(neterr, status, body) ==
    [neterr |-> neterr, status |-> status, body |-> body, readerr |-> FALSE]
\* the reply whose body cannot be read to its end
ReadFails(reply) == [reply EXCEPT !.body = NoBody, !.readerr = TRUE]

ThinkingAnswer == <<"<think>", "T", "</think>", "\n", "\n", "A">>
\* a reasoning block with no blank line behind it
InlineThinkingAnswer == <<"<think>", "T", "</think>", "A">>

PostReplies ==
    {Reply(TRUE, 0, NoBody),
     Reply(FALSE, 500, Body("server error", FALSE, <<>>)),
     Reply(FALSE, 204, NoBody),
     ReadFails(Reply(FALSE, 200, NoBody)),
     ReadFails(Reply(FALSE, 500, NoBody)),
     Reply(FALSE, 200, Body("<html>", FALSE, <<>>)),
     Reply(FALSE, 200, Body("{}", TRUE, <<>>)),
     Reply(FALSE, 200, Body("{choices:[A]}", TRUE, <<NewAssistantMessage(Text("A"))>>)),
     Reply(FALSE, 200, Body("{choices:[<think>T</think>\\n\\nA]}", TRUE,
                            <<NewAssistantMessage(ThinkingAnswer)>>)),
     Reply(FALSE, 200, Body("{choices:[<think>T</think>A]}", TRUE,
                            <<NewAssistantMessage(InlineThinkingAnswer)>>)),
     Reply(FALSE, 200, Body("{choices:[A,B]}", TRUE,
                            <<NewAssistantMessage(Text("A")),
                              NewAssistantMessage(Text("B"))>>))}

StreamLines ==
    {OtherLine, DoneLine, BadLine, ChunkLine(<<>>),
     ChunkLine(<<Delta("", Text("Hel")), Delta("", Text("y"))>>),
     ChunkLine(<<Delta("bot", Text("lo"))>>),
     ChunkLine(<<Delta("tool", NoText)>>)}

\* the replies to a streaming request: a failure, or a body that delivers
\* lines and then ends or breaks
StreamReply(reply, lines, broken) ==
    [neterr |-> reply.neterr, status |-> reply.status, body |-> reply.body,
     readerr |-> reply.readerr, lines |-> lines, broken |-> broken]
LineSeqs == SeqsUpTo(StreamLines, MaxLines)
StreamReplies ==
    {StreamReply(r, <<>>, FALSE) : r \in {q \in PostReplies : q.neterr \/ ~Is2xx(q.status)}}
        \cup {StreamReply(Reply(FALSE, 200, NoBody), lines, broken) :
                  lines \in LineSeqs, broken \in BOOLEAN}

SinkErrors == {NoErr, "sink: stop"}

NoStore == [msgs |-> <<>>, params |-> EmptyMap]
NoWire == [via |-> "", url |-> "", headers |-> [ContentType |-> "", Authorization |-> ""],
           body |-> EmptyMap]
\* what the transport answered and what the Requester made of it
NoReply == [neterr |-> FALSE, status |-> 0, body |-> NoBody, readerr |-> FALSE]
NoneGot == [handle |-> FALSE, raw |-> NoBody, err |-> NoErr]
ReplyOf(reply) ==
    [neterr |-> reply.neterr, status |-> reply.status, body |-> reply.body,
     readerr |-> reply.readerr]

\* posts: the requests the call has handed to the Requester
NoChat == [pc |-> "idle", m |-> NoModel, opts |-> <<>>, config |-> NewRequestConfig,
           msgsIn |-> <<>>, paramsIn |-> EmptyMap, wire |-> NoWire, posts |-> 0,
           reply |-> NoReply, got |-> NoneGot]
NoStream == [lines |-> <<>>, broken |-> FALSE, pos |-> 0, fullContent |-> NoText,
             role |-> ""]
NoSink == [log |-> <<>>, rets |-> <<>>]
NoResult == [done |-> FALSE, resp |-> NoResp, err |-> NoErr]

InitChat ==
    /\ store = NoStore
    /\ chat = NoChat
    /\ stream = NoStream
    /\ sink = NoSink
    /\ bodies = [open |-> 0]
    /\ result = NoResult
    /\ chats = 0

Returned(resp, err) == [done |-> TRUE, resp |-> resp, err |-> err]

\* nothing has been built or called yet
Unbuilt == chat.pc = "idle" /\ chats = 0 /\ store = NoStore

\* the caller builds the message slice and the parameter map it will pass
CallerBuilds(msgs, params) ==
    /\ Unbuilt
    /\ store' = [msgs |-> msgs, params |-> params]
    /\ UNCHANGED <<chat, stream, sink, bodies, result, chats>>
    /\ UNCHANGED notChatVars

\* model.Chat(ctx, messages, opts...) up to the transport call
\* owned: the message slice and the parameter map the caller passes
StartChat(m, owned, opts) ==
    /\ chat.pc = "idle"
    /\ chats < MaxChats
    /\ LET p == PrepareChat(m, owned, opts)
       IN  /\ store' = p.store
           /\ chat' = [pc |-> p.wire.via, m |-> m, opts |-> opts, config |-> p.config,
                       msgsIn |-> owned.msgs, paramsIn |-> owned.params,
                       wire |-> p.wire, posts |-> 1, reply |-> NoReply,
                       got |-> NoneGot]
    /\ stream' = NoStream
    /\ sink' = NoSink
    /\ result' = NoResult
    /\ chats' = chats + 1
    /\ UNCHANGED bodies

ChatCall(m, opts) ==
    /\ StartChat(m, store, opts)
    /\ UNCHANGED notChatVars

\* mutant: a failed call is sent once more
PostReplyRetries(reply) ==
    /\ chat.pc = "Post"
    /\ LET posted == RequesterPost(reply)
           r == FinishChat(chat.m.client.provider, posted)
       IN  IF r.err # NoErr /\ chat.posts < 2
           THEN /\ chat' = [chat EXCEPT !.posts = @ + 1]
                /\ UNCHANGED result
           ELSE /\ result' = Returned(r.resp, r.err)
                /\ chat' = [chat EXCEPT !.pc = "idle", !.reply = ReplyOf(reply),
                                        !.got = [handle |-> FALSE, raw |-> posted.raw,
                                                 err |-> posted.err]]
    /\ UNCHANGED bodies
    /\ UNCHANGED <<store, stream, sink, chats>>
    /\ UNCHANGED notChatVars

\* Requester.Post returns (its body read and closed inside) and Chat runs to
\* its return
PostReply(reply) ==
    /\ chat.pc = "Post"
    /\ LET posted == RequesterPost(reply)
           r == FinishChat(chat.m.client.provider, posted)
       IN  /\ result' = Returned(r.resp, r.err)
           /\ chat' = [chat EXCEPT !.pc = "idle", !.reply = ReplyOf(reply),
                                   !.got = [handle |-> FALSE, raw |-> posted.raw,
                                            err |-> posted.err]]
    /\ UNCHANGED bodies
    /\ UNCHANGED <<store, stream, sink, chats>>
    /\ UNCHANGED notChatVars

\* Requester.PostStream returns: Chat returns its error or starts the read loop
PostStreamReply(reply) ==
    /\ chat.pc = "PostStream"
    /\ LET r == RequesterPostStream(reply)
           got == [handle |-> r.resp, raw |-> NoBody, err |-> r.err]
       IN  /\ bodies' = [open |-> bodies.open + r.opened - r.closed]
           /\ IF r.err # NoErr
              THEN /\ result' = Returned(NoResp, r.err)
                   /\ chat' = [chat EXCEPT !.pc = "idle", !.reply = ReplyOf(reply),
                                           !.got = got]
                   /\ UNCHANGED stream
              ELSE /\ stream' = [lines |-> reply.lines, broken |-> reply.broken,
                                 pos |-> 0,
                                 fullContent |-> NoText, role |-> RoleAssistant]
                   /\ chat' = [chat EXCEPT !.pc = "Scan", !.reply = ReplyOf(reply),
                                           !.got = got]
                   /\ UNCHANGED result
    /\ UNCHANGED <<store, sink, chats>>
    /\ UNCHANGED notChatVars

\* scanner.Scan() yields a line and the loop body runs up to the callback
ScanLine ==
    /\ chat.pc = "Scan"
    /\ stream.pos < Len(stream.lines)
    /\ LET h == HandleLine(stream.lines[stream.pos + 1], stream.role, stream.fullContent)
           deliver == h.next = "deliver" /\ chat.config.StreamCallback
       IN  /\ stream' = [stream EXCEPT !.pos = @ + 1, !.role = h.role,
                                       !.fullContent = h.fullContent]
           /\ IF h.next = "break"
              THEN /\ result' = Returned(StreamResponse(h.role, h.fullContent), NoErr)
                   /\ bodies' = DeferClose(bodies)
                   /\ chat' = [chat EXCEPT !.pc = "idle"]
                   /\ UNCHANGED sink
              ELSE /\ sink' = IF deliver
                              THEN [sink EXCEPT !.log = Append(@, h.fragment)]
                              ELSE sink
                   /\ chat' = [chat EXCEPT !.pc = IF deliver THEN "Sink" ELSE "Scan"]
                   /\ UNCHANGED <<result, bodies>>
    /\ UNCHANGED <<store, chats>>
    /\ UNCHANGED notChatVars

\* mutant: scanner.Err() is not looked at
ScanEndErrIgnored ==
    /\ chat.pc = "Scan"
    /\ stream.pos = Len(stream.lines)
    /\ result' = Returned(StreamResponse(stream.role, stream.fullContent), NoErr)
    /\ bodies' = DeferClose(bodies)
    /\ chat' = [chat EXCEPT !.pc = "idle"]
    /\ UNCHANGED <<store, stream, sink, chats>>
    /\ UNCHANGED notChatVars

\* scanner.Scan() yields no line: the stream ended or the read failed
ScanEnd ==
    /\ chat.pc = "Scan"
    /\ stream.pos = Len(stream.lines)
    /\ result' = IF stream.broken
                 THEN Returned(NoResp, "dashscope: stream scan error")
                 ELSE Returned(StreamResponse(stream.role, stream.fullContent), NoErr)
    /\ bodies' = DeferClose(bodies)
    /\ chat' = [chat EXCEPT !.pc = "idle"]
    /\ UNCHANGED <<store, stream, sink, chats>>
    /\ UNCHANGED notChatVars

\* the sink returns
SinkReturns(err) ==
    /\ chat.pc = "Sink"
    /\ sink' = [sink EXCEPT !.rets = Append(@, err)]
    /\ LET r == CallbackResult(err)
       IN  IF r.next = "return"
           THEN /\ result' = Returned(NoResp, r.err)
                /\ bodies' = DeferClose(bodies)
                /\ chat' = [chat EXCEPT !.pc = "idle"]
           ELSE /\ chat' = [chat EXCEPT !.pc = "Scan"]
                /\ UNCHANGED <<result, bodies>>
    /\ UNCHANGED <<store, stream, chats>>
    /\ UNCHANGED notChatVars

NextChat ==
    \/ Unbuilt /\ \E msgs \in MessageSeqs, params \in ParamMaps :
                      CallerBuilds(msgs, params)
    \/ \E m \in Models, opts \in OptionSeqs : ChatCall(m, opts)
    \/ \E reply \in PostReplies : PostReply(reply)

StreamModels == {m \in Models : m.client.provider = "dashscope"}
StreamMessageSeqs == {<<NewSystemMessage(Text("S")), NewUserMessage(Text("U"))>>}
StreamParamMaps == {Put(EmptyMap, "top_k", 5)}

NextStream ==
    \/ Unbuilt /\ \E msgs \in StreamMessageSeqs, params \in StreamParamMaps :
                      CallerBuilds(msgs, params)
    \/ \E m \in StreamModels, opts \in StreamOptionSeqs : ChatCall(m, opts)
    \/ chat.pc = "PostStream" /\ \E reply \in StreamReplies : PostStreamReply(reply)
    \/ ScanLine
    \/ ScanEnd
    \/ \E err \in SinkErrors : SinkReturns(err)

(***************************************************************************)
(* The reasoning-block cleanup on its own: a content, and                  *)
(* thinkTagRegex.ReplaceAllString applied to it once and again.            *)
(***************************************************************************)
MaxPieces == 4

CleanupPieces ==
    {Text("A"), Text("\n"), Text("<think>"), Text("</think>"),
     <<"</think>", "\n", "\n">>, Text("<thi"), Text("nk>"),
     <<"<think>", "T", "</think>", "\n", "\n">>}

RECURSIVE Concat(_)
Concat(texts) == IF texts = <<>> THEN NoText ELSE Head(texts) \o Concat(Tail(texts))

Contents == {Concat(q) : q \in SeqsUpTo(CleanupPieces, MaxPieces)}

NoCleanup == [content |-> NoText, before |-> NoText, passes |-> 0]

InitCleanup == cleanup = NoCleanup

\* a response message arrives with this content
ResponseContent(t) ==
    /\ cleanup = NoCleanup
    /\ cleanup' = [cleanup EXCEPT !.content = t]
    /\ UNCHANGED notCleanupVars

\* responseMessage.Content = thinkTagRegex.ReplaceAllString(responseMessage.Content, "")
ReplaceAllString ==
    /\ cleanup.passes < 2
    /\ cleanup' = [content |-> StripThink(cleanup.content),
                   before |-> cleanup.content,
                   passes |-> cleanup.passes + 1]
    /\ UNCHANGED notCleanupVars

NextCleanup ==
    \/ cleanup = NoCleanup /\ \E t \in Contents : ResponseContent(t)
    \/ ReplaceAllString

(***************************************************************************)
(* The wire request: one Chat on every adapter with every combination of   *)
(* the request options, a few replies of the transport.                    *)
(***************************************************************************)
ThinkingOpts == {<<>>, <<WithThinking(TRUE)>>, <<WithThinking(FALSE)>>}
NumericOpts ==
    {<<>>, <<WithMaxTokens(16)>>,
     <<WithTemperature(1), WithMaxTokens(16), WithTopP(2)>>}
StreamingOpts == {<<>>, <<WithStreaming>>, <<WithStreaming, WithStreamCallback>>}
ParameterOpts ==
    {<<>>, <<WithParameters>>, <<WithParameter("enable_thinking", FALSE)>>}

WireOptionSeqs ==
    {th \o nu \o st \o pa : th \in ThinkingOpts, nu \in NumericOpts,
                            st \in StreamingOpts, pa \in ParameterOpts}
        \cup {pa \o th : pa \in ParameterOpts, th \in ThinkingOpts}

WireMessageSeqs == {<<NewSystemMessage(Text("S")), NewUserMessage(Text("U"))>>}
WireParamMaps ==
    {EmptyMap, Put(Put(EmptyMap, "enable_thinking", TRUE), "max_tokens", 9),
     Put(Put(Put(EmptyMap, "model", "other"), "messages", <<>>), "top_k", 5)}

WireReplies ==
    {r \in PostReplies :
        \/ r.neterr
        \/ r.readerr
        \/ ~Is2xx(r.status)
        \/ r.body.text \in {"<html>", "{}", "{choices:[A]}"}}

WireStreamReplies ==
    {StreamReply(r, <<>>, FALSE) : r \in {q \in WireReplies : ~Is2xx(q.status)}}
        \cup {StreamReply(Reply(FALSE, 200, NoBody), lines, broken) :
                  lines \in {<<>>,
                             <<ChunkLine(<<Delta("", Text("Hel"))>>), DoneLine>>},
                  broken \in BOOLEAN}

NextWire ==
    \/ Unbuilt /\ \E msgs \in WireMessageSeqs, params \in WireParamMaps :
                      CallerBuilds(msgs, params)
    \/ chats = 0 /\ \E m \in Models, opts \in WireOptionSeqs : ChatCall(m, opts)
    \/ \E reply \in WireReplies : PostReply(reply)
    \/ \E reply \in WireStreamReplies : PostStreamReply(reply)
    \/ ScanLine
    \/ ScanEnd
    \/ \E err \in SinkErrors : SinkReturns(err)

(***************************************************************************)
(* The stateful Client: client.Client, and the two deprecated llm.Client   *)
(* types.  A method that sends runs Chat on the model of the client's      *)
(* adapter; the transport's reply and the stream's steps are those of the  *)
(* Chat state machine, and the method's tail runs when Chat has returned.  *)
(* Send and SendStream pass c.history itself, so the array Chat works on   *)
(* is the history's array.                                                 *)
(***************************************************************************)
Variants == {"client", "llm", "llmOld"}

\* llm.Config; Parameters is Unset for a nil map
LLMConfig(provider, systemPrompt, thinking, parameters) ==
    [Provider |-> provider, Model |-> "qwen", APIKey |-> "k", APIURL |-> "u",
     SystemPrompt |-> systemPrompt, Thinking |-> thinking, Parameters |-> parameters]

ClientConfigs ==
    {LLMConfig(p, sp, th, Unset) :
         p \in KnownProviders, sp \in {NoText, Text("S")}, th \in {Unset, Some(FALSE)}}
        \cup {LLMConfig("dashscope", Text("S"), Some(TRUE),
                        Some(Put(EmptyMap, "top_k", 5)))}

UserPrompts == {Text("Q")}

\* a memory string: "", null, text that is no JSON, a JSON object, or a JSON
\* array of {"role": .., "content": ..} objects
EmptyString == [json |-> "empty"]
JSONNull == [json |-> "null"]
JSONBad == [json |-> "bad"]
JSONObject == [json |-> "object"]
JSONMessage(role, content) == [role |-> role, content |-> content]
JSONArray(items) == [json |-> "array", items |-> items]

\* json.Marshal(messages) of a non-nil slice
Marshal(messages) ==
    JSONArray([i \in 1..Len(messages) |->
                   JSONMessage(messages[i].Role, messages[i].Content)])

\* json.Unmarshal([]byte(memoryJSON), &messages)
Unmarshal(data) ==
    IF data.json = "array"
    THEN [messages |-> [i \in 1..Len(data.items) |->
                            Message(data.items[i].role, data.items[i].content)],
          err |-> NoErr]
    ELSE IF data.json = "null"
    THEN [messages |-> <<>>, err |-> NoErr]
    ELSE [messages |-> <<>>, err |-> "failed to parse memory json"]

MemoryJSONs ==
    {EmptyString, JSONNull, JSONBad, JSONObject, JSONArray(<<>>),
     JSONArray(<<JSONMessage(RoleUser, Text("U")), JSONMessage(RoleAssistant, Text("A"))>>),
     JSONArray(<<JSONMessage(RoleSystem, Text("M")), JSONMessage(RoleUser, Text("U")),
                 JSONMessage(RoleAssistant, Text("A"))>>)}

NoClient == [variant |-> "", config |-> LLMConfig("", NoText, Unset, Unset),
             history |-> <<>>, client |-> NoAdapter]
\* prev: the method called before this one
NoMethod == [pc |-> "none", op |-> "", prev |-> "", userPrompt |-> NoText,
             before |-> <<>>, memoryJSON |-> EmptyString, resp |-> NoResp,
             err |-> NoErr, memory |-> EmptyString]

InitClient ==
    /\ stateful = NoClient
    /\ call = NoMethod

\* New: the history a new client starts with
NewHistory(config) ==
    IF config.SystemPrompt # NoText THEN <<NewSystemMessage(config.SystemPrompt)>> ELSE <<>>

\* New(config)
New(variant, config) ==
    /\ stateful = NoClient
    /\ LET providerClient == NewClientOf(config.Provider,
                                         <<WithAPIKey(config.APIKey), WithAPIURL(config.APIURL)>>)
       IN  /\ providerClient.err = NoErr
           /\ stateful' = [variant |-> variant, config |-> config,
                           history |-> NewHistory(config), client |-> providerClient.client]
    /\ UNCHANGED call
    /\ UNCHANGED notClientVars

\* spec.WithStreamCallback(cb) as the options it amounts to: the sink, and
\* with streaming also the request to stream
StreamCallbackOptions(streaming) ==
    IF streaming THEN <<WithStreaming, WithStreamCallback>> ELSE <<WithStreamCallback>>

\* invoke / ChatMessages: the options built from the configuration
InvokeOpts(config, callback, streaming) ==
    (IF config.Parameters.set THEN <<WithParameters>> ELSE <<>>)
        \o (IF config.Thinking.set THEN <<WithThinking(config.Thinking.val)>> ELSE <<>>)
        \o (IF callback THEN StreamCallbackOptions(streaming) ELSE <<>>)

\* what Chat is handed: the message slice and the configuration's map
Owned(config, messages) ==
    [msgs |-> messages,
     params |-> IF config.Parameters.set THEN config.Parameters.val ELSE EmptyMap]

\* invoke / ChatMessages: model := client.Model(config.Model); model.Chat(...)
Invoke(messages, callback, streaming) ==
    StartChat(ModelOf(stateful.client, stateful.config.Model),
              Owned(stateful.config, messages),
              InvokeOpts(stateful.config, callback, streaming))

\* the array behind messages once Chat has prepared its request
Shared(messages, callback, streaming) ==
    PrepareChat(ModelOf(stateful.client, stateful.config.Model),
                Owned(stateful.config, messages),
                InvokeOpts(stateful.config, callback, streaming)).store.msgs

Ready == stateful # NoClient /\ call.pc # "running"

Calls(op, userPrompt, memoryJSON) ==
    [pc |-> "running", op |-> op, prev |-> call.op, userPrompt |-> userPrompt,
     before |-> stateful.history, memoryJSON |-> memoryJSON, resp |-> NoResp,
     err |-> NoErr, memory |-> EmptyString]

\* Send, up to the Chat call
Send(userPrompt) ==
    /\ Ready
    /\ LET history == Append(stateful.history, NewUserMessage(userPrompt))
       IN  /\ Invoke(history, FALSE, FALSE)
           /\ stateful' = [stateful EXCEPT !.history = Shared(history, FALSE, FALSE)]
    /\ call' = Calls("Send", userPrompt, EmptyString)
    /\ UNCHANGED notChatClientVars

\* SendStream, up to the Chat call
SendStream(userPrompt, streaming) ==
    /\ Ready
    /\ stateful.variant \in {"client", "llm"}
    /\ LET history == Append(stateful.history, NewUserMessage(userPrompt))
       IN  /\ Invoke(history, TRUE, streaming)
           /\ stateful' = [stateful EXCEPT !.history = Shared(history, TRUE, streaming)]
    /\ call' = Calls("SendStream", userPrompt, EmptyString)
    /\ UNCHANGED notChatClientVars

\* Send, SendStream: the history after Chat has returned
SendTail(history, resp, err) ==
    IF err # NoErr
    THEN SubSeq(history, 1, Len(history) - 1)
    ELSE Append(history, resp.Message)

\* Send, SendStream: from Chat's return to the method's
SendReturns ==
    /\ call.pc = "running"
    /\ call.op \in {"Send", "SendStream"}
    /\ result.done
    /\ stateful' = [stateful EXCEPT
                        !.history = SendTail(stateful.history, result.resp, result.err)]
    /\ call' = [call EXCEPT !.pc = "returned", !.resp = result.resp, !.err = result.err]
    /\ UNCHANGED notClientVars

\* SendNoHistory: the messages of the call, a slice of their own
SendNoHistoryMessages(variant, history, userPrompt) ==
    IF variant = "llmOld" /\ Len(history) = 0
    THEN <<>>
    ELSE Append(history, NewUserMessage(userPrompt))

\* SendNoHistory
SendNoHistory(userPrompt) ==
    /\ Ready
    /\ Invoke(SendNoHistoryMessages(stateful.variant, stateful.history, userPrompt),
              FALSE, FALSE)
    /\ call' = Calls("SendNoHistory", userPrompt, EmptyString)
    /\ UNCHANGED stateful
    /\ UNCHANGED notChatClientVars

\* mutant: the history is carried as in SendNoHistory
SendStreamNoHistoryMessagesWithHistory(c, userPrompt) ==
    Append(c.history, NewUserMessage(userPrompt))

\* SendStreamNoHistory: the messages of the call
SendStreamNoHistoryMessages(c, userPrompt) ==
    (IF c.config.SystemPrompt # NoText
     THEN <<NewSystemMessage(c.config.SystemPrompt)>> ELSE <<>>)
        \o <<NewUserMessage(userPrompt)>>

\* SendStreamNoHistory
SendStreamNoHistory(userPrompt, streaming) ==
    /\ Ready
    /\ stateful.variant = "client"
    /\ Invoke(SendStreamNoHistoryMessages(stateful, userPrompt), TRUE, streaming)
    /\ call' = Calls("SendStreamNoHistory", userPrompt, EmptyString)
    /\ UNCHANGED stateful
    /\ UNCHANGED notChatClientVars

\* SendNoHistory, SendStreamNoHistory: Chat's return is the method's
NoHistoryReturns ==
    /\ call.pc = "running"
    /\ call.op \in {"SendNoHistory", "SendStreamNoHistory"}
    /\ result.done
    /\ call' = [call EXCEPT !.pc = "returned", !.resp = result.resp, !.err = result.err]
    /\ UNCHANGED stateful
    /\ UNCHANGED notClientVars

\* mutant: the system message is put back without looking at the prompt
ResetHistoryAlwaysSystem(c) ==
    <<NewSystemMessage(c.config.SystemPrompt)>>

\* ResetHistory: the history it leaves
ResetHistoryOf(c) ==
    LET history == SubSeq(c.history, 1, 0)
    IN  IF c.config.SystemPrompt # NoText
        THEN Append(history, NewSystemMessage(c.config.SystemPrompt))
        ELSE history

\* ResetHistory
ResetHistory ==
    /\ Ready
    /\ stateful' = [stateful EXCEPT !.history = ResetHistoryOf(stateful)]
    /\ call' = [NoMethod EXCEPT !.pc = "returned", !.op = "ResetHistory",
                                !.prev = call.op, !.before = stateful.history]
    /\ UNCHANGED notClientVars

\* SendByMemory: the messages parsed from the memory string
ParsedMemory(memoryJSON) ==
    IF memoryJSON # EmptyString THEN Unmarshal(memoryJSON)
    ELSE [messages |-> <<>>, err |-> NoErr]

\* SendByMemory: the messages of the call
SendByMemoryMessages(c, parsed, userPrompt) ==
    LET messages == IF Len(parsed) = 0 /\ c.config.SystemPrompt # NoText
                    THEN Append(parsed, NewSystemMessage(c.config.SystemPrompt))
                    ELSE parsed
    IN  Append(messages, NewUserMessage(userPrompt))

\* SendByMemory, up to the Chat call or to the return on a memory that does
\* not parse
SendByMemory(userPrompt, memoryJSON) ==
    /\ Ready
    /\ stateful.variant = "client"
    /\ LET parsed == ParsedMemory(memoryJSON)
       IN  IF parsed.err # NoErr
           THEN /\ call' = [Calls("SendByMemory", userPrompt, memoryJSON) EXCEPT
                                !.pc = "returned", !.err = parsed.err,
                                !.memory = memoryJSON]
                /\ UNCHANGED chatVars
           ELSE /\ Invoke(SendByMemoryMessages(stateful, parsed.messages, userPrompt),
                          FALSE, FALSE)
                /\ call' = Calls("SendByMemory", userPrompt, memoryJSON)
    /\ UNCHANGED stateful
    /\ UNCHANGED notChatClientVars

\* SendByMemory: from Chat's return to the method's; store.msgs is the
\* method's messages slice
SendByMemoryReturns ==
    /\ call.pc = "running"
    /\ call.op = "SendByMemory"
    /\ result.done
    /\ call' = [call EXCEPT
                    !.pc = "returned", !.resp = result.resp, !.err = result.err,
                    !.memory = IF result.err # NoErr
                               THEN call.memoryJSON
                               ELSE Marshal(Append(store.msgs, result.resp.Message))]
    /\ UNCHANGED stateful
    /\ UNCHANGED notClientVars

\* the replies the client's calls get
ClientReplies ==
    {Reply(TRUE, 0, NoBody),
     Reply(FALSE, 500, Body("server error", FALSE, <<>>)),
     Reply(FALSE, 200, Body("{}", TRUE, <<>>)),
     Reply(FALSE, 200, Body("{choices:[A]}", TRUE, <<NewAssistantMessage(Text("A"))>>))}
ClientStreamReplies ==
    {StreamReply(Reply(TRUE, 0, NoBody), <<>>, FALSE),
     StreamReply(Reply(FALSE, 200, NoBody),
                 <<ChunkLine(<<Delta("", Text("Hel"))>>), ChunkLine(<<Delta("", Text("lo"))>>),
                   DoneLine>>, FALSE),
     StreamReply(Reply(FALSE, 200, NoBody), <<ChunkLine(<<Delta("", Text("Hel"))>>)>>, TRUE)}

NextClient ==
    \/ stateful = NoClient /\ \E variant \in Variants, config \in ClientConfigs :
                                  New(variant, config)
    \/ \E userPrompt \in UserPrompts : Send(userPrompt)
    \/ \E userPrompt \in UserPrompts, streaming \in BOOLEAN :
           SendStream(userPrompt, streaming)
    \/ SendReturns
    \/ \E userPrompt \in UserPrompts : SendNoHistory(userPrompt)
    \/ \E userPrompt \in UserPrompts, streaming \in BOOLEAN :
           SendStreamNoHistory(userPrompt, streaming)
    \/ NoHistoryReturns
    \/ ResetHistory
    \/ \E userPrompt \in UserPrompts, memoryJSON \in MemoryJSONs :
           SendByMemory(userPrompt, memoryJSON)
    \/ SendByMemoryReturns
    \/ \E reply \in ClientReplies : PostReply(reply)
    \/ chat.pc = "PostStream" /\ \E reply \in ClientStreamReplies : PostStreamReply(reply)
    \/ ScanLine
    \/ ScanEnd
    \/ \E err \in SinkErrors : SinkReturns(err)

(***************************************************************************)
(* Option application on its own: a fresh RequestConfig and the options    *)
(* of a call applied to it one after the other.                            *)
(***************************************************************************)
MaxApplied == 3

OptionValues ==
    {WithThinking(TRUE), WithThinking(FALSE), WithModel("a"), WithModel("b"),
     WithTemperature(1), WithTemperature(2), WithMaxTokens(16), WithMaxTokens(32),
     WithTopP(1), WithTopP(2), WithStreaming, WithParameters,
     WithParameter("seed", 7), WithParameter("seed", 8), WithParameter("top_k", 9)}

OptionParamMaps == {EmptyMap, Put(Put(EmptyMap, "top_k", 5), "seed", 1)}

NoApplying == [fresh |-> FALSE, params |-> EmptyMap, opts |-> <<>>,
               config |-> NewRequestConfig]

InitOptions == applying = NoApplying

\* config := spec.NewRequestConfig(), the caller's parameter map at hand
FreshConfig(params) ==
    /\ ~applying.fresh
    /\ applying' = [fresh |-> TRUE, params |-> params, opts |-> <<>>,
                    config |-> NewRequestConfig]
    /\ UNCHANGED notOptVars

\* opt(config), for the next option of the call
OptionApplied(o) ==
    /\ applying.fresh
    /\ Len(applying.opts) < MaxApplied
    /\ applying' =
           [applying EXCEPT
                !.opts = Append(@, o),
                !.config = ApplyOption([config |-> applying.config,
                                        store |-> [msgs |-> <<>>,
                                                   params |-> applying.params]],
                                       o).config]
    /\ UNCHANGED notOptVars

NextOptions ==
    \/ \E params \in OptionParamMaps : FreshConfig(params)
    \/ \E o \in OptionValues : OptionApplied(o)

(***************************************************************************)
(* Cancellation of the caller's context while a streaming Chat is in its   *)
(* read loop.  The request was made with the context, so a read that has   *)
(* to wait for the connection after the cancellation fails; what the       *)
(* scanner and the transport had received by then (lines, and the end of   *)
(* the body if it had come) is still read.                                 *)
(***************************************************************************)
\* delivered: the fragments the sink had been given when ctx was cancelled;
\* ended: the end of the body had been received by then
NoContext == [cancelled |-> FALSE, delivered |-> 0, ended |-> FALSE]

InitContext == ctx = NoContext

\* cancel(): buffered is the number of lines of the stream received by then,
\* ended tells whether the end of the body was received with them
Cancel(buffered, ended) ==
    /\ chat.pc \in {"Scan", "Sink"}
    /\ ~ctx.cancelled
    /\ buffered \in stream.pos..Len(stream.lines)
    /\ ended => (buffered = Len(stream.lines) /\ ~stream.broken)
    /\ ctx' = [cancelled |-> TRUE, delivered |-> Len(sink.log), ended |-> ended]
    /\ stream' = [stream EXCEPT !.lines = SubSeq(@, 1, buffered),
                                !.broken = ~ended]
    /\ UNCHANGED <<store, chat, sink, bodies, result, chats>>
    /\ UNCHANGED <<cacheVars, ncVars, cleanupVars, clientVars, optVars, raceVars>>

CancelLines == {DoneLine, OtherLine, ChunkLine(<<Delta("", Text("Hel"))>>)}
CancelStreamReplies ==
    {StreamReply(Reply(FALSE, 200, NoBody), lines, broken) :
         lines \in SeqsUpTo(CancelLines, MaxLines), broken \in BOOLEAN}

NextCancel ==
    \/ Unbuilt /\ \E msgs \in StreamMessageSeqs, params \in StreamParamMaps :
                      CallerBuilds(msgs, params)
    \/ chats = 0 /\ \E m \in StreamModels, opts \in StreamOptionSeqs : ChatCall(m, opts)
    \/ chat.pc = "PostStream" /\ \E reply \in CancelStreamReplies : PostStreamReply(reply)
    \/ ScanLine
    \/ ScanEnd
    \/ \E err \in SinkErrors : SinkReturns(err)
    \/ \E buffered \in stream.pos..Len(stream.lines), ended \in BOOLEAN :
           Cancel(buffered, ended)

(***************************************************************************)
(* Chat called by several goroutines on the same model handle with the     *)
(* same message slice and the same options.  The handle, the adapter and   *)
(* its config are only read.  The steps of a call that touch the slice:    *)
(* the generic adapter's copy, the read and the write of                   *)
(* messages[i].Content += "\n/no_think", and the marshalling of the body   *)
(* inside Requester.Post.  A read that has no ordering to a write in       *)
(* progress is a data race: it yields the value before, the value after,   *)
(* or a torn one.                                                          *)
(***************************************************************************)
NoSetup == [m |-> NoModel, opts |-> <<>>, given |-> <<>>]
NoCaller == [pc |-> "idle", i |-> 0, read |-> NoText, wire |-> EmptyMap]
Torn == <<"?">>

RaceOptionSeqs == {<<>>, <<WithThinking(FALSE)>>, <<WithThinking(TRUE), WithTemperature(1)>>}
RaceMessageSeqs ==
    {<<NewSystemMessage(Text("S")), NewUserMessage(Text("U"))>>,
     <<NewUserMessage(Text("U"))>>,
     <<NewUserMessage(Text("U")), NewSystemMessage(Text("S")),
       NewSystemMessage(Text("T"))>>}

InitRace ==
    /\ setup = NoSetup
    /\ slice = <<>>
    /\ callers = [p \in Procs |-> NoCaller]
    /\ writeLog = {}
    /\ overlap = FALSE

\* the callers' common arguments: model := client.Model(name), the messages
\* and the options
Shares(m, msgs, opts) ==
    /\ setup = NoSetup
    /\ setup' = [m |-> m, opts |-> opts, given |-> msgs]
    /\ slice' = msgs
    /\ UNCHANGED <<callers, writeLog, overlap>>
    /\ UNCHANGED notRaceVars

\* config := spec.NewRequestConfig(); for _, opt := range opts { opt(config) }
RaceConfig ==
    ApplyOptions([config |-> NewRequestConfig,
                  store |-> [msgs |-> setup.given, params |-> EmptyMap]],
                 setup.opts).config

RaceProvider == setup.m.client.provider

\* the body an adapter builds around the messages it reads
RequestBodyOf(provider, config, name, msgs) ==
    IF provider = "dashscope" THEN DashscopeRequestBody(config, name, msgs)
    ELSE IF provider = "generic" THEN GenericRequestBody(config, name, msgs)
    ELSE OpenAIRequestBody(config, name, msgs)

Running(p) == callers[p].pc \notin {"idle", "returned"}

\* the contents a read of slice[j].Content by p can yield
RacyRead(p, j) ==
    {slice[j].Content}
        \cup UNION {{callers[q].read \o NoThinkSuffix, Torn} :
                       q \in {r \in Procs \ {p} :
                                 callers[r].pc = "write" /\ callers[r].i = j}}

\* a goroutine calls model.Chat(ctx, messages, opts...)
ChatStarts(p) ==
    /\ setup # NoSetup
    /\ callers[p].pc = "idle"
    /\ callers' = [callers EXCEPT ![p].pc =
                       IF RaceProvider = "generic" THEN "copy" ELSE "marshal"]
    /\ overlap' = (overlap \/ \E q \in Procs \ {p} : Running(q))
    /\ UNCHANGED <<setup, slice, writeLog>>
    /\ UNCHANGED notRaceVars

\* generic: processedMessages := copy of messages, and the loop up to the
\* first system message; the roles are never written, so i is the same for
\* every caller
CopyMessages(p) ==
    /\ callers[p].pc = "copy"
    /\ LET i == FirstSystem(slice, 1)
           adapts == RaceConfig.Thinking.set /\ ~RaceConfig.Thinking.val /\ i # 0
       IN  callers' = [callers EXCEPT ![p].pc = IF adapts THEN "read" ELSE "marshal",
                                      ![p].i = IF adapts THEN i ELSE 0]
    /\ UNCHANGED <<setup, slice, writeLog, overlap>>
    /\ UNCHANGED notRaceVars

\* generic: messages[i].Content += "\n/no_think", the read
ReadContent(p) ==
    /\ callers[p].pc = "read"
    /\ \E c \in RacyRead(p, callers[p].i) :
           callers' = [callers EXCEPT ![p].pc = "write", ![p].read = c]
    /\ UNCHANGED <<setup, slice, writeLog, overlap>>
    /\ UNCHANGED notRaceVars

\* generic: messages[i].Content += "\n/no_think", the write
WriteContent(p) ==
    /\ callers[p].pc = "write"
    /\ slice' = [slice EXCEPT ![callers[p].i].Content = callers[p].read \o NoThinkSuffix]
    /\ writeLog' = writeLog \cup {[by |-> p, index |-> callers[p].i]}
    /\ callers' = [callers EXCEPT ![p].pc = "marshal"]
    /\ UNCHANGED <<setup, overlap>>
    /\ UNCHANGED notRaceVars

\* requestBody["messages"] = messages and json.Marshal(body) inside
\* Requester.Post: the body as the slice reads then; only the first system
\* message can have a write in progress
Marshals(p) ==
    /\ callers[p].pc = "marshal"
    /\ LET k == FirstSystem(slice, 1)
       IN  \E c \in IF k = 0 THEN {NoText} ELSE RacyRead(p, k) :
               LET msgs == IF k = 0 THEN slice ELSE [slice EXCEPT ![k].Content = c]
               IN  callers' = [callers EXCEPT
                                  ![p].pc = "returned",
                                  ![p].wire = RequestBodyOf(RaceProvider, RaceConfig,
                                                            setup.m.name, msgs)]
    /\ UNCHANGED <<setup, slice, writeLog, overlap>>
    /\ UNCHANGED notRaceVars

NextRace ==
    \/ setup = NoSetup /\ \E m \in Models, msgs \in RaceMessageSeqs,
                              opts \in RaceOptionSeqs : Shares(m, msgs, opts)
    \/ \E p \in Procs :
           \/ ChatStarts(p)
           \/ CopyMessages(p)
           \/ ReadContent(p)
           \/ WriteContent(p)
           \/ Marshals(p)

Init ==
    /\ InitCache /\ InitNewClient /\ InitChat /\ InitCleanup /\ InitClient
    /\ InitOptions /\ InitContext /\ InitRace

SpecCache == Init /\ [][NextCache]_vars

SpecNewClient == Init /\ [][NextNewClient]_vars

SpecChat == Init /\ [][NextChat]_vars

SpecStream == Init /\ [][NextStream]_vars

SpecCleanup == Init /\ [][NextCleanup]_vars

SpecWire == Init /\ [][NextWire]_vars

SpecClient == Init /\ [][NextClient]_vars

SpecOptions == Init /\ [][NextOptions]_vars

\* Chat runs on the caller's thread: the loop takes its next step, and the
\* sink, once called, returns
SpecCancel ==
    /\ Init
    /\ [][NextCancel]_vars
    /\ WF_vars(ScanLine)
    /\ WF_vars(ScanEnd)
    /\ WF_vars(\E err \in SinkErrors : SinkReturns(err))

SpecRace == Init /\ [][NextRace]_vars

(***************************************************************************)
(* Properties of the adapter cache.                                        *)
(***************************************************************************)
DiffCount(a, b) ==
    (IF a.Provider # b.Provider THEN 1 ELSE 0) + (IF a.APIURL # b.APIURL THEN 1 ELSE 0)
        + (IF a.APIKey # b.APIKey THEN 1 ELSE 0)

\* C1: two successful resolutions with identical (Provider, APIURL, APIKey)
\* return the same adapter instance, and two successful resolutions that differ
\* in exactly one of the three coordinates return distinct instances.
CacheIdentity ==
    \A r1, r2 \in Resolved :
        /\ r1.cfg = r2.cfg => r1.client = r2.client
        /\ DiffCount(r1.cfg, r2.cfg) = 1 => r1.client # r2.client

\* C1 witness: the same coordinates were resolved twice (by different return
\* statements) and so were coordinates differing from them in exactly one place.
CacheIdentityWitness ==
    \E r1, r2, r3 \in Resolved :
        /\ r1.cfg = r2.cfg /\ r1.via # r2.via
        /\ DiffCount(r1.cfg, r3.cfg) = 1

\* C2: a call whose provider identifier is none of dashscope, generic, openai
\* never changes the cache, and when it returns it returns the unknown-provider
\* error and no adapter, whatever the cache held.
UnknownProviderFails ==
    [][\A p \in Procs :
         (pc[p] # "idle" /\ cfg[p].Provider \notin KnownProviders /\ pc'[p] # pc[p])
             => /\ clientCache' = clientCache
                /\ pc'[p] = "idle" =>
                       returned' \ returned \subseteq
                           {[cfg |-> cfg[p], client |-> Nil,
                             err |-> "unknown provider: " \o cfg[p].Provider,
                             via |-> "error"]}]_vars

\* C3: for coordinates that resolve, the provider constructor has run at most
\* once, and every caller that resolved them received the same instance.
NoDuplicateConstruction ==
    \A c \in Configs :
        ((\E r \in Resolved : r.cfg = c) \/ (\E r \in ctorLog : r.cfg = c /\ r.ok))
            => /\ CtorRuns(c) <= 1
               /\ \A r1, r2 \in Resolved :
                      (r1.cfg = c /\ r2.cfg = c) => r1.client = r2.client

\* C3 witness: two callers raced on the same coordinates: one constructed the
\* adapter, the other missed the first check and found it at the second.
NoDuplicateConstructionWitness ==
    \E r1, r2 \in Resolved :
        r1.cfg = r2.cfg /\ r1.via = "new" /\ r2.via = "recheck"

\* C4: every access to clientCache was made holding the mutex (a write holding
\* the write lock), a writer never holds the mutex together with another
\* holder, and no caller is at a read of the map while another is at its write.
NoCacheRace ==
    /\ accessLog
    /\ Cardinality(cacheMutex.writers) <= 1
    /\ cacheMutex.writers # {} => cacheMutex.readers = {}
    /\ \A p, q \in Procs :
           (p # q /\ pc[p] = "insert") => pc[q] \notin {"read", "recheck", "insert"}

\* C4 witness: a caller is at the write of the map, holding the write lock,
\* while another caller is waiting for the mutex.
NoCacheRaceWitness ==
    \E p, q \in Procs :
        /\ p # q /\ pc[p] = "insert" /\ cacheMutex.writers = {p}
        /\ pc[q] \in {"RLock", "Lock"}

(***************************************************************************)
(* Properties of the provider constructors.                                *)
(***************************************************************************)
\* the value the last option of the given kind sets, or the default
RECURSIVE LastValue(_, _, _)
LastValue(opts, kind, default) ==
    IF opts = <<>> THEN default
    ELSE IF opts[Len(opts)].opt = kind THEN opts[Len(opts)].val
    ELSE LastValue(SubSeq(opts, 1, Len(opts) - 1), kind, default)

CallKey == LastValue(ncCall.opts, "WithAPIKey", "")
CallSucceeded == ncCall.result.err = NoErr /\ ncCall.result.client # NoAdapter
CallFailed == ncCall.result.err # NoErr /\ ncCall.result.client = NoAdapter

\* C5 as stated: construction succeeds for every known provider whenever the
\* API key is non-empty, and fails whenever it is empty.
ConstructionByKeyOnly ==
    ncCall # NoCall =>
        /\ CallKey # "" => CallSucceeded
        /\ CallKey = "" => CallFailed

\* C5 amended: dashscope and openai succeed whenever the API key is non-empty,
\* generic succeeds whenever the API key and the API URL are both non-empty, and
\* every provider fails, returning no adapter, whenever the API key is empty.
ConstructionByKeyAndURL ==
    ncCall # NoCall =>
        /\ (CallKey # "" /\ ncCall.provider \in {"dashscope", "openai"}) => CallSucceeded
        /\ (CallKey # "" /\ ncCall.provider = "generic"
               /\ LastValue(ncCall.opts, "WithAPIURL", "") # "") => CallSucceeded
        /\ CallKey = "" => CallFailed

\* C5 witness: a constructor was called with a key that an earlier option had
\* set differently, and succeeded.
ConstructionWitness ==
    /\ Len(ncCall.opts) = 2
    /\ ncCall.opts[1] = WithAPIKey("")
    /\ ncCall.opts[2] = WithAPIKey("k")
    /\ CallSucceeded

(***************************************************************************)
(* Streaming: order, abort, release of the response body.                  *)
(***************************************************************************)
\* the content fragments a stream carries, in wire order: of every data line
\* before the [DONE] line that parses as a chunk with a choice, the non-empty
\* content of the first choice
RECURSIVE Fragments(_)
Fragments(lines) ==
    IF lines = <<>> THEN <<>>
    ELSE LET l == Head(lines)
         IN  IF l.data /\ l.done THEN <<>>
             ELSE (IF l.data /\ l.json /\ Len(l.choices) > 0
                      /\ l.choices[1].Content # NoText
                   THEN <<l.choices[1].Content>> ELSE <<>>)
                  \o Fragments(Tail(lines))

LinesRead == SubSeq(stream.lines, 1, stream.pos)

IsStreaming == chats > 0 /\ chat.wire.via = "PostStream"

SinkNeverFailed == \A k \in 1..Len(sink.rets) : sink.rets[k] = NoErr

\* C6: in a streaming Chat whose sink has not failed, at every moment the sink
\* has been given exactly the content fragments of the lines read so far, in
\* wire order (so fragment i is delivered before line i+1 is read, none twice,
\* none lost), and when the call returns a result its message content is the
\* concatenation of all the fragments of the stream in that order.
StreamingOrder ==
    (IsStreaming /\ SinkNeverFailed) =>
        /\ chat.config.StreamCallback => sink.log = Fragments(LinesRead)
        /\ (result.done /\ result.err = NoErr) =>
               /\ result.resp.Message.Content = Concat(Fragments(stream.lines))
               /\ chat.config.StreamCallback => sink.log = Fragments(stream.lines)

\* C6 witness: a stream with a line that is no chunk between two chunks was
\* read to its [DONE]; the sink got "Hel" then "lo" and the result is "Hello".
StreamingOrderWitness ==
    /\ IsStreaming
    /\ result.done
    /\ result.err = NoErr
    /\ Len(stream.lines) = MaxLines
    /\ ~stream.lines[2].json
    /\ sink.log = <<Text("Hel"), Text("lo")>>
    /\ sink.rets = <<NoErr, NoErr>>
    /\ result.resp.Message.Content = <<"Hel", "lo">>

\* C7: if the sink returned an error on fragment k, Chat has returned that
\* same error and no result, the sink was invoked k times and not again, and
\* the last line read is the one that carried fragment k.
SinkAbort ==
    \A k \in 1..Len(sink.rets) :
        sink.rets[k] # NoErr =>
            /\ chat.pc = "idle"
            /\ result = Returned(NoResp, sink.rets[k])
            /\ Len(sink.rets) = k
            /\ Len(sink.log) = k
            /\ Len(Fragments(LinesRead)) = k
            /\ Len(Fragments(SubSeq(stream.lines, 1, stream.pos - 1))) = k - 1

\* C7 witness: the sink accepted the first fragment and failed on the second,
\* with a further fragment still unread on the stream.
SinkAbortWitness ==
    /\ Len(sink.rets) = 2
    /\ sink.rets[1] = NoErr
    /\ sink.rets[2] # NoErr
    /\ stream.pos < Len(stream.lines)
    /\ Len(Fragments(stream.lines)) > 2

\* C8: whenever no streaming call is inside its read loop, in particular after
\* every return of Chat, no response body is open.
BodiesClosed == chat.pc \notin {"Scan", "Sink"} => bodies.open = 0

\* C8 witness: a second streaming call was aborted by the sink after a body
\* had been opened for it, and has returned.
BodiesClosedWitness ==
    /\ chats = MaxChats
    /\ result.done
    /\ Len(sink.rets) > 0
    /\ sink.rets[Len(sink.rets)] # NoErr
    /\ stream.pos > 0

(***************************************************************************)
(* Chat and the caller's objects; the generic adapter's thinking marker.   *)
(***************************************************************************)
\* C9 as stated: after Chat has returned, with a result or an error, the
\* caller's message sequence and the map it passed to WithParameters are what
\* they were when Chat was called.
CallerStateUnchanged ==
    result.done => (store.msgs = chat.msgsIn /\ store.params = chat.paramsIn)

IsFirstSystem(msgs, j) ==
    msgs[j].Role = RoleSystem /\ \A h \in 1..(j - 1) : msgs[h].Role # RoleSystem

\* C10: a Chat on the generic adapter with thinking explicitly disabled sends
\* the messages it was given, except that the content of the first system
\* message is followed by "\n/no_think"; every other message, later system
\* messages included, and a sequence without system message go out unchanged.
NoThinkOnFirstSystem ==
    (chats > 0 /\ chat.m.client.provider = "generic"
        /\ chat.config.Thinking = Some(FALSE)) =>
        LET in == chat.msgsIn
            out == chat.wire.body["messages"]
        IN  /\ Len(out) = Len(in)
            /\ \A j \in 1..Len(in) :
                   /\ out[j].Role = in[j].Role
                   /\ out[j].Content = IF IsFirstSystem(in, j)
                                       THEN in[j].Content \o <<"\n", "/no_think">>
                                       ELSE in[j].Content

\* C10 witness: the generic adapter, thinking disabled, was given a user message
\* followed by two system messages; the first of these went out marked, the
\* second as it was.
NoThinkOnFirstSystemWitness ==
    /\ chats > 0
    /\ chat.m.client.provider = "generic"
    /\ chat.config.Thinking = Some(FALSE)
    /\ chat.msgsIn = <<NewUserMessage(Text("U")), NewSystemMessage(Text("S")),
                       NewSystemMessage(Text("S"))>>
    /\ chat.wire.body["messages"][2].Content = <<"S", "\n", "/no_think">>
    /\ chat.wire.body["messages"][3].Content = <<"S">>

(***************************************************************************)
(* The generic adapter's reasoning blocks.                                 *)
(***************************************************************************)
IsGenericCall == chats > 0 /\ chat.m.client.provider = "generic"

\* C11: a Chat on the generic adapter with thinking enabled or unset sends the
\* messages exactly as it was given them, and the content it returns is the
\* first choice's content with the reasoning-block cleanup applied.
NoMarkerUnlessDisabled ==
    (IsGenericCall /\ chat.config.Thinking # Some(FALSE)) =>
        /\ chat.wire.body["messages"] = chat.msgsIn
        /\ (result.done /\ result.err = NoErr) =>
               result.resp.Message.Content
                   = StripThink(result.resp.RawResponse.choices[1].Content)

\* C11 witness: thinking was enabled, a system message went out unmarked, and
\* the answer "<think>T</think>\n\nA" came back as "A".
NoMarkerUnlessDisabledWitness ==
    /\ IsGenericCall
    /\ chat.config.Thinking = Some(TRUE)
    /\ chat.msgsIn = <<NewSystemMessage(Text("S")), NewUserMessage(Text("U"))>>
    /\ chat.wire.body["messages"][1].Content = <<"S">>
    /\ result.done
    /\ result.err = NoErr
    /\ result.resp.RawResponse.choices[1].Content = ThinkingAnswer
    /\ result.resp.Message.Content = <<"A">>

\* C12 as stated: the cleanup applied a second time leaves the text as the
\* first application left it.
CleanupIdempotent == cleanup.passes >= 2 => cleanup.content = cleanup.before

HasThinkTag(t) == \E i \in 1..Len(t) : OpenLen(t, i) > 0

\* C13 as stated: the content a successful Chat on the generic adapter returns
\* contains no "<think>" tag.
NoThinkTagReturned ==
    (IsGenericCall /\ result.done /\ result.err = NoErr) =>
        ~HasThinkTag(result.resp.Message.Content)

(***************************************************************************)
(* The wire request body and the transport.                                *)
(***************************************************************************)
Called == chats > 0
Provider == chat.m.client.provider
WireBody == chat.wire.body
Has(body, field) == field \in DOMAIN body

\* C14: a Chat on the dashscope adapter with the thinking option set sends
\* enable_thinking with the caller's value, whether it streams or not and
\* whatever enable_thinking the caller's parameters hold.
ThinkingFieldSent ==
    (Called /\ Provider = "dashscope" /\ chat.config.Thinking.set) =>
        /\ Has(WireBody, "enable_thinking")
        /\ WireBody["enable_thinking"] = chat.config.Thinking.val

\* C14 witness: a streaming call with thinking disabled whose parameters hold
\* enable_thinking = true went out with enable_thinking = false.
ThinkingFieldSentWitness ==
    /\ Called
    /\ Provider = "dashscope"
    /\ chat.wire.via = "PostStream"
    /\ chat.config.Thinking = Some(FALSE)
    /\ Has(chat.config.Parameters, "enable_thinking")
    /\ chat.config.Parameters["enable_thinking"] = TRUE
    /\ WireBody["enable_thinking"] = FALSE

\* C15 as stated: a Chat on the dashscope adapter with the thinking option
\* unset sends no enable_thinking field, whatever the other options.
ThinkingFieldOmitted ==
    (Called /\ Provider = "dashscope" /\ ~chat.config.Thinking.set) =>
        ~Has(WireBody, "enable_thinking")

\* C15 amended: with the thinking option unset the body holds enable_thinking
\* only if the caller's parameters hold it, and then with their value.
ThinkingFieldOnlyFromParameters ==
    (Called /\ Provider = "dashscope" /\ ~chat.config.Thinking.set) =>
        /\ Has(WireBody, "enable_thinking")
               <=> Has(chat.config.Parameters, "enable_thinking")
        /\ Has(WireBody, "enable_thinking") =>
               WireBody["enable_thinking"] = chat.config.Parameters["enable_thinking"]

\* C15 witness: thinking unset and no parameters: the call went out, with its
\* other options in the body, without the field.
ThinkingFieldOmittedWitness ==
    /\ Called
    /\ Provider = "dashscope"
    /\ ~chat.config.Thinking.set
    /\ chat.config.Temperature.set
    /\ chat.config.Parameters = EmptyMap
    /\ Has(WireBody, "temperature")
    /\ ~Has(WireBody, "enable_thinking")

OptionSent(option, field) ==
    IF option.set THEN Has(WireBody, field) /\ WireBody[field] = option.val
    ELSE Has(WireBody, field) => Has(chat.config.Parameters, field)

\* C16 as stated: on every adapter each of temperature, maxTokens, topP that
\* the options hold is in the body with the caller's value, and each one they
\* do not hold is absent unless the caller's parameters supply it.
SamplingOptionsSent ==
    Called =>
        /\ OptionSent(chat.config.Temperature, "temperature")
        /\ OptionSent(chat.config.MaxTokens, "max_tokens")
        /\ OptionSent(chat.config.TopP, "top_p")

\* C17 as stated: on every adapter a call with streaming requested marks the
\* body stream = true and goes through PostStream, and a call without goes
\* through the buffered Post.
StreamingHonoured ==
    Called =>
        IF chat.config.Streaming
        THEN /\ Has(WireBody, "stream")
             /\ WireBody["stream"] = TRUE
             /\ chat.wire.via = "PostStream"
        ELSE chat.wire.via = "Post"

Answered == Called /\ chat.reply # NoReply
StatusError(reply) ==
    "requester: API error (status " \o StatusText(reply.status) \o "): "
        \o reply.body.text

\* C18 as stated: for a status outside 200..299 Post and PostStream return no
\* body and no handle but an error that holds the status code and the body
\* text; for a status inside, Post returns the body's bytes and PostStream the
\* open response; and Chat returns the transport's error as it is.
StatusReported ==
    Answered =>
        /\ ~chat.reply.neterr =>
               IF Is2xx(chat.reply.status)
               THEN IF chat.wire.via = "Post"
                    THEN chat.got.err = NoErr /\ chat.got.raw = chat.reply.body
                    ELSE chat.got.err = NoErr /\ chat.got.handle
               ELSE /\ chat.got.err = StatusError(chat.reply)
                    /\ ~chat.got.handle
                    /\ chat.got.raw = NoBody
        /\ chat.got.err # NoErr => result = Returned(NoResp, chat.got.err)

\* C18 amended: as stated whenever the body can be read to its end; when it
\* cannot, Post returns the read error whatever the status, and PostStream
\* reports a status outside 200..299 with the text it could read.
StatusReportedIfRead ==
    Answered =>
        /\ ~chat.reply.neterr =>
               IF chat.wire.via = "Post" /\ chat.reply.readerr
               THEN /\ chat.got.err = "requester: failed to read response body"
                    /\ chat.got.raw = NoBody
               ELSE IF Is2xx(chat.reply.status)
               THEN IF chat.wire.via = "Post"
                    THEN chat.got.err = NoErr /\ chat.got.raw = chat.reply.body
                    ELSE chat.got.err = NoErr /\ chat.got.handle
               ELSE /\ chat.got.err = StatusError(chat.reply)
                    /\ ~chat.got.handle
                    /\ chat.got.raw = NoBody
        /\ chat.got.err # NoErr => result = Returned(NoResp, chat.got.err)

\* C18 witness: the transport answered 500 "server error" and Chat returned
\* the error that names both.
StatusReportedWitness ==
    /\ Answered
    /\ chat.reply.status = 500
    /\ chat.reply.body.text = "server error"
    /\ result = Returned(NoResp, "requester: API error (status 500): server error")

\* C19: on a response that parses, without choices the generic adapter returns
\* an error and no result while dashscope and openai return an empty message
\* with the raw bytes; with choices every adapter returns the first one's
\* message (the generic adapter after its cleanup of the content).
ZeroChoices ==
    (Answered /\ chat.wire.via = "Post" /\ chat.got.err = NoErr
        /\ chat.got.raw.json) =>
        LET choices == chat.got.raw.choices
        IN  IF Len(choices) = 0
            THEN IF Provider = "generic"
                 THEN result.err # NoErr /\ result.resp = NoResp
                 ELSE /\ result.err = NoErr
                      /\ result.resp.Message = [Role |-> "", Content |-> NoText]
                      /\ result.resp.RawResponse = chat.reply.body
            ELSE /\ result.err = NoErr
                 /\ result.resp.Message.Role = choices[1].Role
                 /\ result.resp.Message.Content =
                        IF Provider = "generic" THEN StripThink(choices[1].Content)
                        ELSE choices[1].Content
                 /\ result.resp.RawResponse = chat.reply.body

\* C19 witness: the openai adapter got a well-formed response without choices
\* and returned an empty message with the bytes attached.
ZeroChoicesWitness ==
    /\ Answered
    /\ Provider = "openai"
    /\ chat.got.raw.json
    /\ chat.got.raw.choices = <<>>
    /\ result.done
    /\ result.err = NoErr
    /\ result.resp.Message.Content = NoText
    /\ result.resp.RawResponse.text = "{}"

\* C20: a Chat call hands at most one request to the transport; when it has
\* returned an error it has handed over exactly one and is not running.
NoRetries ==
    /\ chat.posts <= 1
    /\ (result.done /\ result.err # NoErr) => (chat.posts = 1 /\ chat.pc = "idle")

\* C20 witness: a call failed on a body that does not parse, after one request.
NoRetriesWitness ==
    /\ Answered
    /\ Is2xx(chat.reply.status)
    /\ ~chat.reply.body.json
    /\ result.done
    /\ result.err # NoErr
    /\ chat.posts = 1

(***************************************************************************)
(* Properties of the stateful Client.                                      *)
(***************************************************************************)
\* the method op has returned
Done(op) == call.pc = "returned" /\ call.op = op
Succeeded == call.err = NoErr
UserMessage == NewUserMessage(call.userPrompt)

\* C21: when Send or SendStream has succeeded, the messages handed to Chat
\* were the history before the call followed by the user message, and the
\* history is the history before the call followed by the user message and
\* the response's message.
SendRecorded ==
    ((Done("Send") \/ Done("SendStream")) /\ Succeeded) =>
        /\ chat.msgsIn = Append(call.before, UserMessage)
        /\ stateful.history = call.before \o <<UserMessage, call.resp.Message>>

\* C22: when Send or SendStream has failed, the history is, message by
\* message and content by content, the history before the call.
FailedSendKeepsHistory ==
    ((Done("Send") \/ Done("SendStream")) /\ ~Succeeded) =>
        stateful.history = call.before

\* C23: when SendNoHistory has returned, the messages handed to Chat were the
\* history followed by the user message, and the history is the one before
\* the call.
SendNoHistoryCarriesHistory ==
    Done("SendNoHistory") =>
        /\ chat.msgsIn = Append(call.before, UserMessage)
        /\ stateful.history = call.before

SystemPromptMessages ==
    IF stateful.config.SystemPrompt # NoText
    THEN <<NewSystemMessage(stateful.config.SystemPrompt)>>
    ELSE <<>>

\* C24: when SendStreamNoHistory has returned, with a response or an error,
\* the messages handed to Chat were the system prompt's message (if the prompt
\* is not empty) and the user message, and the history is the one before the
\* call.
StreamNoHistoryCarriesNone ==
    Done("SendStreamNoHistory") =>
        /\ chat.msgsIn = SystemPromptMessages \o <<UserMessage>>
        /\ stateful.history = call.before

\* a history of several messages was there, and the call streamed to the sink
StreamNoHistoryWitness ==
    /\ Done("SendStreamNoHistory")
    /\ Succeeded
    /\ Len(call.before) = 3
    /\ Len(sink.log) = 2

\* C25: after ResetHistory the history is the system prompt's message, or
\* empty when the prompt is empty, and a Send that follows hands Chat that
\* message and the user message only.
ResetLeavesSystemPrompt ==
    /\ Done("ResetHistory") => stateful.history = SystemPromptMessages
    /\ (call.op = "Send" /\ call.prev = "ResetHistory") =>
           chat.msgsIn = SystemPromptMessages \o <<UserMessage>>

\* a Send after the reset of a history that held an exchange
ResetWitness ==
    /\ Done("Send")
    /\ call.prev = "ResetHistory"
    /\ Len(call.before) = 1
    /\ chats = 2

\* C26: when SendByMemory has returned an error, the memory returned is the
\* memory string passed in and there is no response; when it has succeeded,
\* the memory returned decodes to the parsed memory (the system prompt's
\* message when that is empty), the user message and the response's message.
MemoryReturned ==
    Done("SendByMemory") =>
        LET parsed == ParsedMemory(call.memoryJSON).messages
        IN  IF ~Succeeded
            THEN call.memory = call.memoryJSON /\ call.resp = NoResp
            ELSE Unmarshal(call.memory).messages =
                     (IF Len(parsed) = 0 THEN SystemPromptMessages ELSE <<>>)
                         \o parsed \o <<UserMessage, call.resp.Message>>

(***************************************************************************)
(* Properties of the request options.                                      *)
(***************************************************************************)
\* C27: a Chat given WithModel(model) sends that model as the model field of
\* the request body, not the name the model was bound to.
ModelOptionSent ==
    (Called /\ chat.config.Model # "") => WireBody["model"] = chat.config.Model

\* the positions of the options named name, and the last of a set of positions
Positions(opts, names) == {i \in 1..Len(opts) : opts[i].opt \in names}
Last(positions) == CHOOSE i \in positions : \A j \in positions : j <= i
LastSet(opts, name) ==
    IF Positions(opts, {name}) = {} THEN Unset
    ELSE Some(opts[Last(Positions(opts, {name}))].val)

\* the keys option o writes into Parameters and the value it writes for key k
KeysOf(o, params) ==
    IF o.opt = "WithParameters" THEN DOMAIN params
    ELSE IF o.opt = "WithParameter" THEN {o.key} ELSE {}
ValueOf(o, params, k) == IF o.opt = "WithParameters" THEN params[k] ELSE o.val
Writers(opts, params, k) == {i \in 1..Len(opts) : k \in KeysOf(opts[i], params)}

\* C28: after any sequence of options, each of thinking, temperature,
\* maxTokens, topP and model holds the value of the last option that set it
\* (and is unset when none did), and Parameters holds, for every key an option
\* wrote, the value of the last option that wrote it, and no other key.
LastOptionWins ==
    LET opts == applying.opts
        config == applying.config
        params == applying.params
    IN  /\ config.Thinking = LastSet(opts, "WithThinking")
        /\ config.Temperature = LastSet(opts, "WithTemperature")
        /\ config.MaxTokens = LastSet(opts, "WithMaxTokens")
        /\ config.TopP = LastSet(opts, "WithTopP")
        /\ config.Model = IF LastSet(opts, "WithModel").set
                          THEN LastSet(opts, "WithModel").val ELSE ""
        /\ DOMAIN config.Parameters =
               UNION {KeysOf(opts[i], params) : i \in 1..Len(opts)}
        /\ \A k \in DOMAIN config.Parameters :
               config.Parameters[k] =
                   ValueOf(opts[Last(Writers(opts, params, k))], params, k)

\* C28 witness: a single parameter, then the map that holds the same key, then
\* the single parameter again with another value: the last value is there.
LastOptionWinsWitness ==
    /\ applying.opts = <<WithParameter("seed", 7), WithParameters, WithParameter("seed", 8)>>
    /\ applying.params # EmptyMap
    /\ applying.config.Parameters["seed"] = 8
    /\ applying.config.Parameters["top_k"] = 5

(***************************************************************************)
(* Properties of the end of a stream.                                      *)
(***************************************************************************)
Cancelled == ctx.cancelled /\ result.done

\* C29 as stated: a streaming Chat whose context was cancelled during the read
\* loop returns an error.
CancelReturnsError ==
    Cancelled => result.err # NoErr

\* the loop has read a [DONE] line
DoneRead == stream.pos > 0 /\ stream.lines[stream.pos] = DoneLine

\* C29: once the context is cancelled during the read loop, Chat returns; when
\* it has returned the body is closed and the sink is not called again; it has
\* returned an error unless the loop came upon a [DONE] line or upon the end
\* of the body that had been received before the cancellation.
CancelStopsLoop ==
    /\ ctx.cancelled ~> result.done
    /\ [](Cancelled =>
              /\ bodies.open = 0
              /\ chat.pc = "idle"
              /\ result.err = NoErr => (DoneRead \/ ctx.ended))
    /\ [][Cancelled => sink' = sink]_vars

\* C29 witness: the cancellation came after a first fragment, the scanner held
\* two more lines, the sink was given the fragment of the first of them, and
\* the failed read ended the call with the scan error.
CancelStopsLoopWitness ==
    /\ Cancelled
    /\ ctx.delivered = 1
    /\ ~ctx.ended
    /\ Len(sink.log) = 2
    /\ stream.pos = 3
    /\ result.err = "dashscope: stream scan error"
    /\ bodies.open = 0

\* the position of the first [DONE] line of the stream, 0 when it has none
DoneAt ==
    LET at == {i \in 1..Len(stream.lines) : stream.lines[i] = DoneLine}
    IN  IF at = {} THEN 0 ELSE CHOOSE i \in at : \A j \in at : i <= j

\* the non-empty contents of the first choices of the chunks among lines
RECURSIVE ChunkContents(_)
ChunkContents(lines) ==
    IF lines = <<>> THEN <<>>
    ELSE (IF Head(lines).json /\ Len(Head(lines).choices) > 0
             /\ Head(lines).choices[1].Content # NoText
          THEN <<Head(lines).choices[1].Content>> ELSE <<>>)
         \o ChunkContents(Tail(lines))

\* C30: in a stream with a [DONE] line no line behind the first such line is
\* read, the sink is given fragments of the lines in front of it only, and
\* once that line is read Chat has returned, without error, the content of
\* the fragments in front of it.
DoneEndsLoop ==
    (IsStreaming /\ DoneAt # 0) =>
        LET inFront == ChunkContents(SubSeq(stream.lines, 1, DoneAt - 1))
        IN  /\ stream.pos <= DoneAt
            /\ Len(sink.log) <= Len(inFront)
            /\ sink.log = SubSeq(inFront, 1, Len(sink.log))
            /\ stream.pos = DoneAt =>
                   /\ result.done
                   /\ result.err = NoErr
                   /\ result.resp.Message.Content = Concat(inFront)

\* C30 witness: a chunk, the [DONE] line, another chunk: Chat returned "Hel"
\* and the sink got that one fragment.
DoneEndsLoopWitness ==
    /\ IsStreaming
    /\ Len(stream.lines) = 3
    /\ DoneAt = 2
    /\ stream.lines[3].json
    /\ result.done
    /\ result.err = NoErr
    /\ result.resp.Message.Content = <<"Hel">>
    /\ sink.log = <<Text("Hel")>>

(***************************************************************************)
(* Properties of the lines of a stream.                                    *)
(***************************************************************************)
\* a line the loop passes over: no data line, a data line (not [DONE]) whose
\* payload does not parse, a chunk with no choice, a chunk whose first choice
\* has no content
Skipped(line) ==
    \/ ~line.data
    \/ ~line.done /\ ~line.json
    \/ line.json /\ (Len(line.choices) = 0 \/ line.choices[1].Content = NoText)

\* the loop reads the line behind the read position
Reads(line) ==
    /\ chat.pc = "Scan"
    /\ stream.pos < Len(stream.lines)
    /\ stream'.pos = stream.pos + 1
    /\ line = stream.lines[stream.pos + 1]

CarriesRole(line) ==
    line.json /\ Len(line.choices) > 0 /\ line.choices[1].Role # ""

\* C31 as stated: reading a line that is passed over changes neither the
\* accumulated content nor the running role, does not call the sink and does
\* not end the call; the loop goes on with the next line.
SkipAndContinue ==
    [][\A line \in StreamLines :
           (Reads(line) /\ Skipped(line)) =>
               /\ stream'.fullContent = stream.fullContent
               /\ stream'.role = stream.role
               /\ sink' = sink
               /\ result' = result
               /\ chat'.pc = "Scan"]_vars

\* C31: reading a line that is passed over leaves the accumulated content,
\* does not call the sink and does not end the call; the running role stays
\* unless the line is a chunk whose first choice carries a role, which becomes
\* the running role.
SkipKeepsContent ==
    [][\A line \in StreamLines :
           (Reads(line) /\ Skipped(line)) =>
               /\ stream'.fullContent = stream.fullContent
               /\ stream'.role = IF CarriesRole(line)
                                 THEN line.choices[1].Role ELSE stream.role
               /\ sink' = sink
               /\ result' = result
               /\ chat'.pc = "Scan"]_vars

\* C31 witness: behind a delivered fragment the loop has passed over a payload
\* that does not parse and a chunk with a role and no content, and goes on:
\* the content is the fragment, the role the chunk's.
SkipKeepsContentWitness ==
    /\ IsStreaming
    /\ chat.pc = "Scan"
    /\ stream.pos = 3
    /\ stream.lines[2] = BadLine
    /\ stream.lines[3] = ChunkLine(<<Delta("tool", NoText)>>)
    /\ stream.fullContent = <<"Hel">>
    /\ stream.role = "tool"
    /\ sink.log = <<Text("Hel")>>

\* the role of the last of lines whose first choice carries one
RECURSIVE LastRole(_, _)
LastRole(lines, role) ==
    IF lines = <<>> THEN role
    ELSE LastRole(Tail(lines), IF CarriesRole(Head(lines))
                               THEN Head(lines).choices[1].Role ELSE role)

\* C32: a stream that has ended well returns a message whose role is the role
\* of the last chunk read that carried one, "assistant" when none did, whose
\* content is the accumulated content, and an empty raw body.
StreamResult ==
    (IsStreaming /\ result.done /\ result.err = NoErr) =>
        /\ result.resp.Message.Role = LastRole(LinesRead, "assistant")
        /\ result.resp.Message.Content = Concat(ChunkContents(LinesRead))
        /\ result.resp.Message.Content = stream.fullContent
        /\ result.resp.RawResponse = NoBody

\* C32 witness: two chunks with different roles were read, the second with
\* content; the result has the second's role.
StreamResultWitness ==
    /\ IsStreaming
    /\ result.done
    /\ result.err = NoErr
    /\ stream.pos = 2
    /\ CarriesRole(stream.lines[1])
    /\ result.resp.Message = Message("bot", <<"lo">>)

(***************************************************************************)
(* The fields of the wire body the adapter owns.                           *)
(***************************************************************************)
\* the keys a standard option that is set writes into the body of a provider
OptionKeys(provider, config) ==
    (IF config.Temperature.set THEN {"temperature"} ELSE {})
        \cup (IF provider = "dashscope" /\ config.Thinking.set
              THEN {"enable_thinking"} ELSE {})
        \cup (IF provider = "dashscope" /\ config.Streaming
              THEN {"stream", "stream_options"} ELSE {})
        \cup (IF provider = "openai" /\ config.MaxTokens.set
              THEN {"max_tokens"} ELSE {})
        \cup (IF provider = "openai" /\ config.TopP.set THEN {"top_p"} ELSE {})
        \cup (IF provider = "openai" /\ config.Streaming THEN {"stream"} ELSE {})

UnmarshalError(provider) ==
    IF provider = "dashscope" THEN "dashscope: failed to unmarshal response"
    ELSE IF provider = "generic" THEN "generic provider: failed to unmarshal response"
    ELSE "openai provider: failed to unmarshal response"

\* the buffered transport call has returned a body
BodyReturned == Answered /\ chat.wire.via = "Post" /\ chat.got.err = NoErr

\* C34: on every adapter a body the transport returned that does not parse
\* makes Chat return its unmarshal error and no response, and a response Chat
\* returns holds the transport's body as it came.
UnparsedBodyFails ==
    BodyReturned =>
        /\ result.done
        /\ ~chat.reply.body.json =>
               (result.err = UnmarshalError(Provider) /\ result.resp = NoResp)
        /\ result.err = NoErr =>
               (result.resp # NoResp /\ result.resp.RawResponse = chat.reply.body)

\* C34 witness: the dashscope adapter was answered 200 with a body that is no
\* JSON and returned the unmarshal error.
UnparsedBodyFailsWitness ==
    /\ BodyReturned
    /\ Provider = "dashscope"
    /\ chat.reply.status = 200
    /\ chat.reply.body.text = "<html>"
    /\ result.err = "dashscope: failed to unmarshal response"
    /\ result.resp = NoResp

(***************************************************************************)
(* The cache key and the life of a cache entry.                            *)
(***************************************************************************)
\* C35 as stated: an adapter GetClient returns was constructed for the
\* caller's (Provider, APIURL, APIKey); two successful resolutions of triples
\* that differ in any coordinate never return the same cache entry, also when
\* a coordinate contains '|'.
CacheKeyInjective ==
    \A r1, r2 \in Resolved : r1.client = r2.client => r1.cfg = r2.cfg

\* a caller returns from GetClient
Returns(p) == pc[p] # "idle" /\ pc'[p] = "idle"

\* an earlier resolution of the coordinates c has failed
FailedBefore(c) == \E r \in returned : r.cfg = c /\ r.err # NoErr

\* C36 as stated: the cache holds only adapters a constructor returned without
\* error; no GetClient step removes or replaces an entry; a call that fails
\* leaves the cache as it was; and a call with coordinates that have failed
\* before reaches the provider switch again instead of returning a cached
\* adapter.
CacheOnlyGrows ==
    /\ [](\A k \in DOMAIN clientCache :
              /\ clientCache[k] \in 1..Len(heap)
              /\ heap[clientCache[k]] # NoAdapter)
    /\ [][/\ \A k \in DOMAIN clientCache :
                 k \in DOMAIN clientCache' /\ clientCache'[k] = clientCache[k]
          /\ \A p \in Procs :
                 (Returns(p) /\ \E r \in returned' \ returned : r.err # NoErr)
                     => clientCache' = clientCache
          /\ \A p \in Procs :
                 (Returns(p) /\ FailedBefore(cfg[p]))
                     => pc[p] \in {"construct", "insert"}]_vars

(***************************************************************************)
(* The system message of the history.                                      *)
(***************************************************************************)
\* C37 as stated: between the calls of a client with a system prompt, whatever
\* calls came before and however they ended, the first message of the history
\* is the system message with the configured prompt, and no other message of
\* the history is a system message.
SystemPromptFirst ==
    (stateful # NoClient /\ call.pc # "running"
        /\ stateful.config.SystemPrompt # NoText) =>
        /\ Len(stateful.history) >= 1
        /\ stateful.history[1] = NewSystemMessage(stateful.config.SystemPrompt)
        /\ \A i \in 2..Len(stateful.history) : stateful.history[i].Role # RoleSystem

(***************************************************************************)
(* Chat called again, and called concurrently.                             *)
(***************************************************************************)
Sent(p) == callers[p].pc = "returned"

\* the messages with the marker once on the first system message
MarkedOnce(msgs) ==
    IF FirstSystem(msgs, 1) = 0 THEN msgs
    ELSE [msgs EXCEPT ![FirstSystem(msgs, 1)].Content = @ \o NoThinkSuffix]

\* C38 as stated: when Chat on the generic adapter is called again and again,
\* one call after the other, with the same messages and thinking disabled,
\* every call sends the same messages: the ones built, with "\n/no_think"
\* once behind the first system message's content.
RepeatSendsSame ==
    (setup # NoSetup /\ ~overlap /\ RaceProvider = "generic"
        /\ RaceConfig.Thinking = Some(FALSE)) =>
        \A p \in Procs :
            Sent(p) => callers[p].wire["messages"] = MarkedOnce(setup.given)

\* the request a call sends when it runs alone
WireAlone == PrepareChat(setup.m, [msgs |-> setup.given, params |-> EmptyMap],
                         setup.opts).wire.body

\* C39 as stated: the calls of Chat running on one adapter with the same
\* messages and options write nothing that they share (the adapter, its
\* config, the messages), and each sends the request it sends when run alone.
ChatReentrant ==
    setup # NoSetup =>
        /\ writeLog = {}
        /\ \A p \in Procs : Sent(p) => callers[p].wire = WireAlone

====
